---- MODULE Spec2Model ----
(***************************************************************************)
(* Media-group ("album") receipt collector and batch aggregator of bot.py. *)
(*                                                                         *)
(* The bot runs on one asyncio event loop: the code between two awaits is  *)
(* one uninterrupted segment.  cur names the task that is running a        *)
(* segment; while cur is set no other task moves.  Updates are handled one *)
(* after the other (the Application is built without concurrent updates),  *)
(* flush tasks are spawned with asyncio.create_task and interleave with    *)
(* the handlers and with each other at their awaits.                       *)
(*                                                                         *)
(* Time is counted in half time units, so the 2.5 of _MEDIA_GROUP_DELAY is *)
(* 5 ticks.  Only differences of loop.time() matter to the code, so a      *)
(* sleeping task carries the ticks that remain until its timer is due.     *)
(***************************************************************************)
EXTENDS Integers, Sequences, FiniteSets, TLC

\* ---------------------------------------------------------------- bounds
MaxMsgs == 2          \* updates delivered to the bot in one run
MaxBatch == 3         \* documents of the batch an aggregation starts from
WaitStep == 40        \* time units by which the wait for an extraction is counted
MaxRuns == 2          \* calls of extract_receipt_data on one document

\* ------------------------------------------------------- program constants
MEDIA_GROUP_DELAY == 5    \* _MEDIA_GROUP_DELAY = 2.5, in half units

EXTRACT_TIMEOUT == 120    \* wait_for(..., timeout=120), src/bot.py:355

Groups == {"g1", "g2"}                       \* media_group_id values

\* The "Total" of a line item: a number float() accepts, or a string it rejects.
Num(v) == [numeric |-> TRUE, val |-> v]
NonNumeric == [numeric |-> FALSE, val |-> 0]

\* Task identities: the update handler and the k-th spawned flush task.
NoTask == <<"none", 0>>
Handler == <<"handler", 0>>
Flush(k) == <<"flush", k>>

NoBatch == 0      \* data = None after pop(mg_id, None) found nothing

VARIABLES
    arrived,    \* number of updates delivered so far; the next document is arrived + 1
    pending,    \* _pending_media_groups: media_group_id -> reference of its batch object
    batches,    \* heap of batch objects: reference -> [items: the "items" list;
                \*   history: elapsed, ticks since the first append while registered,
                \*   lastAt, elapsed at the latest append, timer, the flush task
                \*   spawned when the batch was registered]
    lock,       \* _media_group_lock: the task holding it, or NoTask
    cur,        \* the task running on the event loop, or NoTask
    hpc,        \* position of the update handler
    hmsg,       \* media_group_id of the update the handler is processing
    tasks,      \* the flush tasks, in creation order
    files,      \* documents whose temporary file exists
    workers,    \* documents whose executor thread is still running
    soa,        \* rows appended to the SOA sheet: the item and its amount
    drive,      \* documents uploaded to Drive
    sent,       \* history: per flush task, the messages delivered to the chat
    window,     \* history: per flush task, documents enqueued for its id while it slept
    inbox,      \* history: the updates delivered, in order, each with whether its
                \*   media_group_id was registered when it was delivered
    handed,     \* history: per flush task, the item lists it passed to
                \*   _process_media_group_receipts (line 375)
    stub,       \* the document given to extract_receipt_data and what each
                \*   engine answers for it
    run,        \* the call of extract_receipt_data: position, locals, calls made
    active_meetings, \* active_meetings: chat_id -> (user_id -> start time)
    now,        \* what datetime.now() returns
    mh,         \* the /start_meeting or /end_meeting handler: position and locals
    sheet       \* the meetings written to the time sheets

vars == <<arrived, pending, batches, lock, cur, hpc, hmsg, tasks, files,
          workers, soa, drive, sent, window, inbox, handed, stub, run,
          active_meetings, now, mh, sheet>>

collectorVars == <<pending, lock, hpc, hmsg>>
sinkVars == <<files, workers, soa, drive>>
pipeVars == <<stub, run>>
meetVars == <<active_meetings, now, mh, sheet>>
botVars == <<arrived, pending, batches, lock, cur, hpc, hmsg, tasks, files,
             workers, soa, drive, sent, window, inbox, handed, meetVars>>

\* No meeting is tracked and no meeting command is being handled.
NoneActive == [c \in {} |-> 0]
Idle == [pc |-> "idle"]
NoMeeting ==
    /\ active_meetings = NoneActive
    /\ now = 0
    /\ mh = Idle
    /\ sheet = <<>>

\* No call of extract_receipt_data is followed.
NoStub == [ext |-> "none"]
NoRun == [pc |-> "none"]

\* ------------------------------------------------------------- updates
\* An update of an album: a document or a photo, its media_group_id, whether
\* is_for_receipt_extraction(update) holds, and (documents) whether the
\* extension is one of .pdf .jpg .jpeg .png .webp.
Updates ==
    [kind : {"document"}, mg : Groups, trigger : BOOLEAN, extOk : BOOLEAN]
    \cup [kind : {"photo"}, mg : Groups, trigger : BOOLEAN, extOk : {TRUE}]

NoGroup == "none"      \* the handler is not processing an update

\* The record kept of a delivered update.
Delivered(m, registered) ==
    [kind |-> m.kind, mg |-> m.mg, trigger |-> m.trigger, extOk |-> m.extOk,
     registered |-> registered]

\* A flush task right after asyncio.create_task(_flush_media_group(context, mg_id)).
\* jitter is history: the ticks its timer was due while the loop was blocked;
\* fate is history: what became of each document of the loop of line 406.
NewTask(mg) ==
    [ mg |-> mg, pc |-> "sleep", remaining |-> MEDIA_GROUP_DELAY,
      jitter |-> 0, waited |-> 0, data |-> NoBatch,
      i |-> 0, all_items |-> <<>>, lines |-> <<>>, total_amount |-> 0,
      methods_used |-> {}, errors |-> <<>>, drive_folder_id |-> FALSE,
      drive_uploaded |-> FALSE, drive_error |-> "", report |-> "none",
      fate |-> <<>> ]

SeqToSet(s) == {s[k] : k \in 1..Len(s)}

\* A timer is pending while its task sleeps in asyncio.sleep or has not yet
\* popped the registry.
TimerPending(k) == tasks[k].pc \in {"sleep", "pop"}

PendingTimers(mg) == {k \in 1..Len(tasks) : tasks[k].mg = mg /\ TimerPending(k)}

\* Mutant: a document without the trigger is never taken for a receipt.
DocNeverReadsRegistry(m) == FALSE

\* Mutant: a photo without the trigger is looked up in the registry as a
\* document is.
AnyReadsRegistry(m) == m.extOk /\ ~m.trigger

\* ------------------------------------------------------------ handlers
\* handle_document, lines 306-309: the second operand of `or`, the test
\* `mg_id in _pending_media_groups`, is evaluated only when the extension is a
\* receipt's and is_for_receipt_extraction(update) is false.
DocReadsRegistry(m) == m.kind = "document" /\ m.extOk /\ ~m.trigger

\* The updates that reach `async with` without looking at the registry: a
\* document with a receipt's extension that carries the trigger (line 307), a
\* photo that carries it (line 641).
CarriesTrigger(m) == m.extOk /\ m.trigger

\* An update arrives and its handler runs up to its first use of the registry
\* (handle_document lines 296-308, handle_photo_receipt lines 639-646).  Any
\* other update leaves this core: a Drive upload, a reply, or a plain return.
Receive(m) ==
    /\ cur = NoTask
    /\ hpc = "idle"
    /\ arrived < MaxMsgs
    /\ arrived' = arrived + 1
    /\ IF DocReadsRegistry(m)
         THEN /\ hpc' = "test308"
              /\ hmsg' = m.mg
              /\ cur' = Handler
         ELSE IF CarriesTrigger(m)
         THEN /\ hpc' = "acquire"
              /\ hmsg' = m.mg
              /\ cur' = Handler
         ELSE UNCHANGED <<hpc, hmsg, cur>>
    /\ inbox' = Append(inbox, Delivered(m, m.mg \in DOMAIN pending))
    /\ UNCHANGED <<pending, batches, lock, tasks, sent, window, handed>>
    /\ UNCHANGED sinkVars
    /\ UNCHANGED <<pipeVars, meetVars>>

\* line 308: `mg_id in _pending_media_groups`, read before `async with`; a
\* document of a registered album is a receipt, any other leaves this core.
DocTest ==
    /\ cur = Handler
    /\ hpc = "test308"
    /\ IF hmsg \in DOMAIN pending
         THEN /\ hpc' = "acquire"
              /\ UNCHANGED <<cur, hmsg>>
         ELSE /\ hpc' = "idle"
              /\ cur' = NoTask
              /\ hmsg' = NoGroup
    /\ UNCHANGED <<arrived, pending, batches, lock, tasks, sent, window, handed>>
    /\ UNCHANGED sinkVars
    /\ UNCHANGED <<pipeVars, meetVars, inbox>>

\* `async with _media_group_lock:` entered (lines 312, 647).
HAcquire ==
    /\ cur = Handler
    /\ hpc = "acquire"
    /\ lock = NoTask
    /\ lock' = Handler
    /\ hpc' = "locked"
    /\ UNCHANGED <<arrived, pending, batches, cur, hmsg, tasks, sent, window, handed>>
    /\ UNCHANGED sinkVars
    /\ UNCHANGED <<pipeVars, meetVars, inbox>>

\* Mutant: create_task outside the `if`, a timer armed by every enqueue.
TasksAfterEnqueueRearmed(ts, mg, fresh) == Append(ts, NewTask(mg))

\* Mutant: a sliding debounce, every enqueue restarts the timer of its id.
TasksAfterEnqueueSliding(ts, mg, fresh) ==
    IF fresh THEN Append(ts, NewTask(mg))
    ELSE [k \in 1..Len(ts) |->
            IF ts[k].mg = mg /\ ts[k].pc = "sleep"
              THEN [ts[k] EXCEPT !.remaining = MEDIA_GROUP_DELAY] ELSE ts[k]]

\* lines 313-319, 648-656: asyncio.create_task(_flush_media_group(...)) is inside
\* `if mg_id not in _pending_media_groups`; an enqueue for a registered id
\* leaves the tasks alone.
TasksAfterEnqueue(ts, mg, fresh) ==
    IF fresh THEN Append(ts, NewTask(mg)) ELSE ts

\* The body of the `async with` (lines 313-320, 648-657): register a new batch
\* and spawn its flush task when the id is not registered, then append.
HEnqueue ==
    /\ cur = Handler
    /\ hpc = "locked"
    /\ LET mg == hmsg
           d == arrived
           fresh == mg \notin DOMAIN pending
           ref == IF fresh THEN Len(batches) + 1 ELSE pending[mg]
           heap == IF fresh
                     THEN Append(batches, [items |-> <<>>, elapsed |-> 0, lastAt |-> 0,
                                           timer |-> Len(tasks) + 1])
                     ELSE batches
           tasks1 == TasksAfterEnqueue(tasks, mg, fresh)
           spawned == Len(tasks1) > Len(tasks)
       IN /\ pending' = [g \in DOMAIN pending \cup {mg} |->
                            IF g = mg THEN ref ELSE pending[g]]
          /\ batches' = [heap EXCEPT ![ref].items = Append(@, d),
                                     ![ref].lastAt = heap[ref].elapsed]
          /\ tasks' = tasks1
          /\ sent' = IF spawned THEN Append(sent, <<>>) ELSE sent
          /\ handed' = IF spawned THEN Append(handed, <<>>) ELSE handed
          /\ LET w == IF spawned THEN Append(window, <<>>) ELSE window
             IN window' = [k \in 1..Len(w) |->
                             IF tasks1[k].mg = mg /\ tasks1[k].pc \in {"sleep", "pop"}
                               THEN Append(w[k], d) ELSE w[k]]
    /\ hpc' = "release"
    /\ UNCHANGED <<arrived, lock, cur, hmsg>>
    /\ UNCHANGED sinkVars
    /\ UNCHANGED <<pipeVars, meetVars, inbox>>

\* Leaving the `async with`, then `return` (lines 321, 658).
HRelease ==
    /\ cur = Handler
    /\ hpc = "release"
    /\ lock' = NoTask
    /\ hpc' = "idle"
    /\ hmsg' = NoGroup
    /\ cur' = NoTask
    /\ UNCHANGED <<arrived, pending, batches, tasks, sent, window, handed>>
    /\ UNCHANGED sinkVars
    /\ UNCHANGED <<pipeVars, meetVars, inbox>>

\* ---------------------------------------------------------- debounce timer
\* dt ticks pass: timers run down, a timer already due fires that much later.
Elapse(ts, dt) ==
    [k \in 1..Len(ts) |->
        IF ts[k].pc = "sleep"
          THEN [ts[k] EXCEPT !.remaining = IF @ > dt THEN @ - dt ELSE 0,
                             !.jitter = @ + (IF ts[k].remaining < dt
                                               THEN dt - ts[k].remaining ELSE 0)]
          ELSE ts[k]]

\* History: the registered batches grow older by dt ticks.
Age(heap, dt) ==
    [b \in 1..Len(heap) |->
        IF \E g \in DOMAIN pending : pending[g] = b
          THEN [heap[b] EXCEPT !.elapsed = @ + dt] ELSE heap[b]]

\* The loop is idle and no timer is due: one tick passes.  A due timer is run
\* by the idle loop before the clock moves on.
Tick ==
    /\ cur = NoTask
    /\ \E k \in 1..Len(tasks) : tasks[k].pc = "sleep"
    /\ \A k \in 1..Len(tasks) : tasks[k].pc = "sleep" => tasks[k].remaining > 0
    /\ tasks' = Elapse(tasks, 1)
    /\ batches' = Age(batches, 1)
    /\ UNCHANGED <<arrived, cur, sent, window, handed>>
    /\ UNCHANGED collectorVars
    /\ UNCHANGED sinkVars
    /\ UNCHANGED <<pipeVars, meetVars, inbox>>

\* _flush_media_group, lines 368-369: asyncio.sleep(_MEDIA_GROUP_DELAY) is over
\* and the task enters `async with _media_group_lock`.
FlushWake(k) ==
    /\ cur = NoTask
    /\ tasks[k].pc = "sleep"
    /\ tasks[k].remaining = 0
    /\ lock = NoTask
    /\ lock' = Flush(k)
    /\ cur' = Flush(k)
    /\ tasks' = [tasks EXCEPT ![k].pc = "pop"]
    /\ UNCHANGED <<arrived, pending, batches, hpc, hmsg, sent, window, handed>>
    /\ UNCHANGED sinkVars
    /\ UNCHANGED <<pipeVars, meetVars, inbox>>

\* Mutant: the batch is looked up with get() and stays registered.
RegistryAfterGet(mg) == pending

\* The registry after _pending_media_groups.pop(mg_id, None), line 370.
RegistryAfterPop(mg) == [g \in DOMAIN pending \ {mg} |-> pending[g]]

\* line 370: data = _pending_media_groups.pop(mg_id, None)
FlushPop(k) ==
    /\ cur = Flush(k)
    /\ tasks[k].pc = "pop"
    /\ LET mg == tasks[k].mg
           found == mg \in DOMAIN pending
       IN /\ pending' = RegistryAfterPop(mg)
          /\ tasks' = [tasks EXCEPT ![k].pc = "release",
                                    ![k].data = IF found THEN pending[mg] ELSE NoBatch]
    /\ UNCHANGED <<arrived, batches, lock, cur, hpc, hmsg, sent, window, handed>>
    /\ UNCHANGED sinkVars
    /\ UNCHANGED <<pipeVars, meetVars, inbox>>

\* The items of the batch a flush task popped (data["items"]).
ItemsOf(k) == IF tasks[k].data = NoBatch THEN <<>> ELSE batches[tasks[k].data].items

\* Mutant: lines 371-375 indented into the `async with`, the lock kept while
\* the batch is aggregated.
LockKeptForAggregation(k) == Flush(k)

\* The holder of _media_group_lock once task k has left the `async with` of
\* lines 369-370, before line 371.
LockAfterSeal(k) == NoTask

\* lines 370-374: the `async with` is left; an absent or empty batch returns,
\* otherwise the task awaits send_message("Processing n receipt(s)...").
FlushRelease(k) ==
    /\ cur = Flush(k)
    /\ tasks[k].pc = "release"
    /\ lock' = LockAfterSeal(k)
    /\ cur' = NoTask
    /\ tasks' = [tasks EXCEPT ![k].pc = IF ItemsOf(k) = <<>> THEN "done" ELSE "notify"]
    /\ UNCHANGED <<arrived, pending, batches, hpc, hmsg, sent, window, handed>>
    /\ UNCHANGED sinkVars
    /\ UNCHANGED <<pipeVars, meetVars, inbox>>

\* ------------------------------------------------------------- aggregator
\* What PDFExtractor.extract_receipt_data is made to return: (items, True,
\* None, method) with at least one item, here the "Total" column of the items,
\* or ([], False, error_msg, "failed").
Outcomes ==
    { [items |-> <<Num(2)>>, success |-> TRUE, error_msg |-> "",
       method |-> "gemini_vision"],
      [items |-> <<Num(3), NonNumeric>>, success |-> TRUE, error_msg |-> "",
       method |-> "gemini_text"],
      [items |-> <<>>, success |-> FALSE, error_msg |-> "Unable to extract amounts",
       method |-> "failed"] }

\* The line items of document d, from the totals the extractor returned.
ItemsFrom(d, totals) ==
    [j \in 1..Len(totals) |-> [doc |-> d, idx |-> j, Total |-> totals[j]]]

\* Mutant: the new items are put in front of the merged ones.
MergeItemsInFront(all, new) == new \o all

\* all_items.extend(items_data), line 414
MergeItems(all, new) == all \o new

\* Mutant: an item whose total is not a number gets no summary line.
SummaryLinesNumericOnly(new) ==
    LET kept == SelectSeq(new, LAMBDA it : it.Total.numeric)
    IN [j \in 1..Len(kept) |->
           [doc |-> kept[j].doc, idx |-> kept[j].idx,
            amount |-> <<"$", kept[j].Total.val>>]]

\* lines 416-425: one summary line per item; float(total) adds to the sum,
\* a total float() rejects is listed as "-".
SummaryLines(new) ==
    [j \in 1..Len(new) |->
        [doc |-> new[j].doc, idx |-> new[j].idx,
         amount |-> IF new[j].Total.numeric THEN <<"$", new[j].Total.val>>
                                             ELSE <<"-", 0>>]]

RECURSIVE SumTotals(_)
SumTotals(new) ==
    IF new = <<>> THEN 0
    ELSE (IF Head(new).Total.numeric THEN Head(new).Total.val ELSE 0)
         + SumTotals(Tail(new))

\* Mutant: a failed document leaves no error entry.
RecordErrorDropped(errors, i, msg) == errors

\* Mutant: the error is tagged with the 0-based index.
RecordErrorZeroBased(errors, i, msg) == Append(errors, [receipt |-> i, msg |-> msg])

\* errors.append(f"Receipt {i + 1}: ..."), lines 438, 440, 443
RecordError(errors, i, msg) == Append(errors, [receipt |-> i + 1, msg |-> msg])

\* Mutant: a timeout is reported like any other exception.
ErrorTextNoTimeout(kind, error_msg) ==
    IF kind \in {"timed_out", "raised"} THEN "exception"
    ELSE IF error_msg # "" THEN error_msg ELSE "No data extracted"

\* The text of the error entry: `error_msg or 'No data extracted'` (line 438),
\* "Timed out" (line 440), str(e) (line 443).
ErrorText(kind, error_msg) ==
    IF kind = "timed_out" THEN "Timed out"
    ELSE IF kind = "raised" THEN "exception"
    ELSE IF error_msg # "" THEN error_msg ELSE "No data extracted"

\* Mutant: the "Some failed" list is left out of the summary.
ReportWithoutErrors(lines, errors) ==
    IF lines # <<>> THEN "summary"
    ELSE (IF errors # <<>> THEN "all_failed" ELSE "no_data")

\* lines 451-472: which message the batch ends with.
Report(lines, errors) ==
    IF lines # <<>>
      THEN (IF errors # <<>> THEN "summary_some_failed" ELSE "summary")
      ELSE (IF errors # <<>> THEN "all_failed" ELSE "no_data")

\* Mutant: update_soa appends nothing.
UpdateSoaNothing(rows, data) == rows

\* SheetsService.update_soa, lines 323-337: one row per item, appended in the
\* order of the items; the amount is float(Total), 0 for a total float()
\* rejects.
UpdateSoa(rows, data) ==
    rows \o [j \in 1..Len(data) |->
                [doc |-> data[j].doc, idx |-> data[j].idx,
                 Amount |-> IF data[j].Total.numeric THEN data[j].Total.val ELSE 0]]

\* The end of one iteration of the loop of line 406: the next document's
\* get_file is awaited, or the loop is over and the final message is sent.
Advance(r, n) ==
    IF r.i + 1 < n
      THEN [r EXCEPT !.i = r.i + 1, !.pc = "get_file"]
      ELSE [r EXCEPT !.pc = "send_final", !.report = Report(r.lines, r.errors)]

\* The document a flush task is processing: items[i].
CurDoc(k) == ItemsOf(k)[tasks[k].i + 1]

\* An iteration that ends in one of the except clauses of lines 439-443.
FailDoc(r, n, kind, error_msg) ==
    Advance([r EXCEPT !.errors = RecordError(@, r.i, ErrorText(kind, error_msg)),
                      !.fate = Append(@, [kind |-> kind, items |-> <<>>])], n)

\* lines 412-436 for a result with success and items: update_soa, merge,
\* summary; r is left at the Drive upload or at the end of the iteration.
MergeDoc(r, n, d, res, hasFile) ==
    LET new == ItemsFrom(d, res.items)
        r1 == [r EXCEPT !.all_items = MergeItems(@, new),
                        !.methods_used = @ \cup {res.method},
                        !.lines = @ \o SummaryLines(new),
                        !.total_amount = @ + SumTotals(new),
                        !.fate = Append(@, [kind |-> "ok", items |-> new])]
    IN IF r.drive_folder_id /\ hasFile
         THEN [r1 EXCEPT !.pc = "drive"]
         ELSE Advance(r1, n)

\* line 374 answered.  A failed send_message ends the task with the exception;
\* otherwise _process_media_group_receipts starts (lines 384-405) and runs to
\* its first await: the "not configured" reply, the reply of the outer except
\* (load_config or SheetsService raised), or get_file of the first document.
NotifyDone(k) ==
    /\ cur = NoTask
    /\ tasks[k].pc = "notify"
    /\ \E ok \in BOOLEAN, cfg \in {"ok", "unconfigured", "raises"}, folder \in BOOLEAN :
         /\ ~ok => (cfg = "ok" /\ ~folder)
         /\ (cfg # "ok") => ~folder
         /\ sent' = IF ok THEN [sent EXCEPT ![k] = Append(@, "processing")] ELSE sent
         /\ handed' = IF ok THEN [handed EXCEPT ![k] = Append(@, ItemsOf(k))]
                            ELSE handed
         /\ tasks' = [tasks EXCEPT ![k] =
                        IF ~ok THEN [@ EXCEPT !.pc = "crashed"]
                        ELSE IF cfg = "unconfigured" THEN [@ EXCEPT !.pc = "send_cfg"]
                        ELSE IF cfg = "raises" THEN [@ EXCEPT !.pc = "send_err"]
                        ELSE [@ EXCEPT !.pc = "get_file", !.drive_folder_id = folder]]
    /\ UNCHANGED <<arrived, cur, window>>
    /\ UNCHANGED <<collectorVars, batches>>
    /\ UNCHANGED sinkVars
    /\ UNCHANGED <<pipeVars, meetVars, inbox>>

\* _process_single_receipt, lines 345-346: get_file answered; the temporary
\* file is created and the download awaited.  A raise skips the document.
GetFileDone(k) ==
    /\ cur = NoTask
    /\ tasks[k].pc = "get_file"
    /\ \E ok \in BOOLEAN :
         IF ok
           THEN /\ files' = files \cup {CurDoc(k)}
                /\ tasks' = [tasks EXCEPT ![k].pc = "download"]
           ELSE /\ files' = files
                /\ tasks' = [tasks EXCEPT ![k] =
                               FailDoc(@, Len(ItemsOf(k)), "raised", "")]
    /\ UNCHANGED <<arrived, cur, workers, soa, drive, sent, window, handed>>
    /\ UNCHANGED <<collectorVars, batches>>
    /\ UNCHANGED <<pipeVars, meetVars, inbox>>

\* lines 347-356: the download answered; the extraction is handed to the
\* executor and awaited under the timeout.  A raise leaves the try of line 349
\* unentered: the file stays.
DownloadDone(k) ==
    /\ cur = NoTask
    /\ tasks[k].pc = "download"
    /\ \E ok \in BOOLEAN :
         IF ok
           THEN /\ workers' = workers \cup {CurDoc(k)}
                /\ tasks' = [tasks EXCEPT ![k].pc = "extract"]
           ELSE /\ workers' = workers
                /\ tasks' = [tasks EXCEPT ![k] =
                               FailDoc(@, Len(ItemsOf(k)), "raised", "")]
    /\ UNCHANGED <<arrived, cur, files, soa, drive, sent, window, handed>>
    /\ UNCHANGED <<collectorVars, batches>>
    /\ UNCHANGED <<pipeVars, meetVars, inbox>>

\* lines 353-356: the extraction is still running in its executor thread and
\* the time waited for it grows, up to the timeout of wait_for.
ExtractWait(k) ==
    /\ tasks[k].pc = "extract"
    /\ tasks[k].waited < EXTRACT_TIMEOUT
    /\ tasks' = [tasks EXCEPT ![k].waited =
                    IF @ + WaitStep < EXTRACT_TIMEOUT THEN @ + WaitStep
                    ELSE EXTRACT_TIMEOUT]
    /\ UNCHANGED <<arrived, cur, files, workers, soa, drive, sent, window, handed>>
    /\ UNCHANGED <<collectorVars, batches>>
    /\ UNCHANGED <<pipeVars, meetVars, inbox>>

\* lines 353-357 and 412-449: the awaited extraction ends with a result or
\* with the extractor's exception, when the thread is done before the timeout,
\* or with asyncio.TimeoutError when the timeout is reached first (the executor
\* thread keeps running).  The iteration runs on to the Drive upload or to its
\* end; sheets.update_soa is a blocking call on the loop.
ExtractDone(k) ==
    /\ cur = NoTask
    /\ tasks[k].pc = "extract"
    /\ LET d == CurDoc(k)
           n == Len(ItemsOf(k))
           r == [tasks[k] EXCEPT !.waited = 0]
           late == tasks[k].waited = EXTRACT_TIMEOUT
       IN \/ /\ late
             /\ workers' = workers
             /\ files' = files \ {d}
             /\ tasks' = [tasks EXCEPT ![k] = FailDoc(r, n, "timed_out", "")]
             /\ UNCHANGED <<soa, batches>>
          \/ /\ ~late
             /\ workers' = workers \ {d}
             /\ files' = files \ {d}
             /\ tasks' = [tasks EXCEPT ![k] = FailDoc(r, n, "raised", "")]
             /\ UNCHANGED <<soa, batches>>
          \/ \E res \in Outcomes, soaOk \in BOOLEAN, dt \in 0..1 :
               /\ ~late
               /\ ~(res.success /\ res.items # <<>>) => (soaOk /\ dt = 0)
               /\ ~soaOk => dt = 0
               /\ workers' = workers \ {d}
               /\ batches' = Age(batches, dt)
               /\ LET r2 == IF ~(res.success /\ res.items # <<>>)
                              THEN FailDoc(r, n, "no_data", res.error_msg)
                            ELSE IF ~soaOk THEN FailDoc(r, n, "raised", "")
                            ELSE MergeDoc(r, n, d, res, d \in files)
                  IN /\ tasks' = [Elapse(tasks, dt) EXCEPT ![k] = r2]
                     /\ files' = IF r2.pc = "drive" THEN files ELSE files \ {d}
                     /\ soa' = IF res.success /\ res.items # <<>> /\ soaOk
                                 THEN UpdateSoa(soa, ItemsFrom(d, res.items)) ELSE soa
    /\ UNCHANGED <<arrived, cur, drive, sent, window, handed>>
    /\ UNCHANGED collectorVars
    /\ UNCHANGED <<pipeVars, meetVars, inbox>>

\* Mutant: the exception of the upload is not caught at line 434 and reaches
\* the except clause of line 441.
AfterUploadEscaping(r, ok) ==
    IF ok THEN [r EXCEPT !.drive_uploaded = TRUE]
    ELSE [r EXCEPT !.errors = RecordError(@, r.i, ErrorText("raised", ""))]

\* lines 428-436: the upload is in a try of its own; success sets
\* drive_uploaded, an exception is kept in drive_error (the first one) and
\* logged.
AfterUpload(r, ok) ==
    IF ok THEN [r EXCEPT !.drive_uploaded = TRUE]
    ELSE [r EXCEPT !.drive_error = IF @ = "" THEN "upload failed" ELSE @]

\* lines 427-449: the Drive upload answered; a failure is kept in drive_error
\* and the document stays merged.  The finally clause deletes the file.
DriveDone(k) ==
    /\ cur = NoTask
    /\ tasks[k].pc = "drive"
    /\ LET d == CurDoc(k)
           n == Len(ItemsOf(k))
       IN \E ok \in BOOLEAN :
            /\ drive' = IF ok THEN drive \cup {d} ELSE drive
            /\ files' = files \ {d}
            /\ tasks' = [tasks EXCEPT ![k] = Advance(AfterUpload(@, ok), n)]
    /\ UNCHANGED <<arrived, cur, workers, soa, sent, window, handed>>
    /\ UNCHANGED <<collectorVars, batches>>
    /\ UNCHANGED <<pipeVars, meetVars, inbox>>

\* lines 468-475: the final message answered; a failed send is caught by the
\* outer except, which sends the "Error" reply.
SendFinalDone(k) ==
    /\ cur = NoTask
    /\ tasks[k].pc = "send_final"
    /\ \E ok \in BOOLEAN :
         /\ sent' = IF ok THEN [sent EXCEPT ![k] = Append(@, tasks[k].report)] ELSE sent
         /\ tasks' = [tasks EXCEPT ![k].pc = IF ok THEN "done" ELSE "send_err"]
    /\ UNCHANGED <<arrived, cur, window, handed>>
    /\ UNCHANGED <<collectorVars, batches>>
    /\ UNCHANGED sinkVars
    /\ UNCHANGED <<pipeVars, meetVars, inbox>>

\* lines 389-390: the "Google Sheets not configured" reply answered.
SendCfgDone(k) ==
    /\ cur = NoTask
    /\ tasks[k].pc = "send_cfg"
    /\ \E ok \in BOOLEAN :
         /\ sent' = IF ok THEN [sent EXCEPT ![k] = Append(@, "not_configured")] ELSE sent
         /\ tasks' = [tasks EXCEPT ![k].pc = IF ok THEN "done" ELSE "send_err"]
    /\ UNCHANGED <<arrived, cur, window, handed>>
    /\ UNCHANGED <<collectorVars, batches>>
    /\ UNCHANGED sinkVars
    /\ UNCHANGED <<pipeVars, meetVars, inbox>>

\* lines 473-475: the reply of the outer except answered; when it fails too
\* the exception leaves the task.
SendErrDone(k) ==
    /\ cur = NoTask
    /\ tasks[k].pc = "send_err"
    /\ \E ok \in BOOLEAN :
         /\ sent' = IF ok THEN [sent EXCEPT ![k] = Append(@, "error")] ELSE sent
         /\ tasks' = [tasks EXCEPT ![k].pc = IF ok THEN "done" ELSE "crashed"]
    /\ UNCHANGED <<arrived, cur, window, handed>>
    /\ UNCHANGED <<collectorVars, batches>>
    /\ UNCHANGED sinkVars
    /\ UNCHANGED <<pipeVars, meetVars, inbox>>

\* An executor thread abandoned by a timeout runs to its end; nothing reads
\* its result.
WorkerFinish(d) ==
    /\ d \in workers
    /\ \A k \in 1..Len(tasks) : tasks[k].pc = "extract" => CurDoc(k) # d
    /\ workers' = workers \ {d}
    /\ UNCHANGED <<arrived, cur, tasks, files, soa, drive, sent, window, handed>>
    /\ UNCHANGED <<collectorVars, batches>>
    /\ UNCHANGED <<pipeVars, meetVars, inbox>>

\* ------------------------------------------------------------ specification
Init ==
    /\ arrived = 0
    /\ pending = <<>>
    /\ batches = <<>>
    /\ lock = NoTask
    /\ cur = NoTask
    /\ hpc = "idle"
    /\ hmsg = NoGroup
    /\ tasks = <<>>
    /\ files = {}
    /\ workers = {}
    /\ soa = <<>>
    /\ drive = {}
    /\ sent = <<>>
    /\ window = <<>>
    /\ inbox = <<>>
    /\ handed = <<>>
    /\ stub = NoStub
    /\ run = NoRun
    /\ NoMeeting

Next ==
    \/ \E m \in Updates : Receive(m)
    \/ DocTest
    \/ HAcquire
    \/ HEnqueue
    \/ HRelease
    \/ Tick
    \/ \E k \in 1..Len(tasks) : FlushWake(k)
    \/ \E k \in 1..Len(tasks) : FlushPop(k)
    \/ \E k \in 1..Len(tasks) : FlushRelease(k)
    \/ \E k \in 1..Len(tasks) : NotifyDone(k)
    \/ \E k \in 1..Len(tasks) : GetFileDone(k)
    \/ \E k \in 1..Len(tasks) : DownloadDone(k)
    \/ \E k \in 1..Len(tasks) : ExtractWait(k)
    \/ \E k \in 1..Len(tasks) : ExtractDone(k)
    \/ \E k \in 1..Len(tasks) : DriveDone(k)
    \/ \E k \in 1..Len(tasks) : SendFinalDone(k)
    \/ \E k \in 1..Len(tasks) : SendCfgDone(k)
    \/ \E k \in 1..Len(tasks) : SendErrDone(k)
    \/ \E d \in workers : WorkerFinish(d)

Spec == Init /\ [][Next]_vars

\* _process_media_group_receipts on its own: _flush_media_group has sealed an
\* album of n documents and awaits the "Processing n receipt(s)..." message.
\* The event loop runs a task that is ready and the clock advances: the
\* handler of a delivered update runs to its return, a flush task whose sleep
\* is over takes the lock when it is free, pops and leaves the lock.  Nothing
\* is assumed of the arrival of updates, of the network or of the executor.
Fairness ==
    /\ WF_vars(DocTest)
    /\ WF_vars(HAcquire)
    /\ WF_vars(HEnqueue)
    /\ WF_vars(HRelease)
    /\ WF_vars(Tick)
    /\ WF_vars(\E k \in 1..Len(tasks) : FlushWake(k))
    /\ WF_vars(\E k \in 1..Len(tasks) : FlushPop(k))
    /\ WF_vars(\E k \in 1..Len(tasks) : FlushRelease(k))

SpecLive == Spec /\ Fairness

InitAgg ==
    \E n \in 1..MaxBatch :
      /\ arrived = n
      /\ pending = <<>>
      /\ batches = << [items |-> [p \in 1..n |-> p], elapsed |-> MEDIA_GROUP_DELAY,
                       lastAt |-> 0, timer |-> 1] >>
      /\ lock = NoTask
      /\ cur = NoTask
      /\ hpc = "idle"
      /\ hmsg = NoGroup
      /\ tasks = << [NewTask("g1") EXCEPT !.pc = "notify", !.remaining = 0, !.data = 1] >>
      /\ files = {}
      /\ workers = {}
      /\ soa = <<>>
      /\ drive = {}
      /\ sent = << <<>> >>
      /\ window = << [p \in 1..n |-> p] >>
      /\ inbox = [p \in 1..n |->
                     Delivered([kind |-> "document", mg |-> "g1", trigger |-> p = 1,
                                extOk |-> TRUE], p > 1)]
      /\ handed = << <<>> >>
      /\ stub = NoStub
      /\ run = NoRun
      /\ NoMeeting

NextAgg ==
    \/ \E k \in 1..Len(tasks) : NotifyDone(k)
    \/ \E k \in 1..Len(tasks) : GetFileDone(k)
    \/ \E k \in 1..Len(tasks) : DownloadDone(k)
    \/ \E k \in 1..Len(tasks) : ExtractWait(k)
    \/ \E k \in 1..Len(tasks) : ExtractDone(k)
    \/ \E k \in 1..Len(tasks) : DriveDone(k)
    \/ \E k \in 1..Len(tasks) : SendFinalDone(k)
    \/ \E k \in 1..Len(tasks) : SendCfgDone(k)
    \/ \E k \in 1..Len(tasks) : SendErrDone(k)
    \/ \E d \in workers : WorkerFinish(d)

SpecAgg == InitAgg /\ [][NextAgg]_vars

\* ======================================================================
\* PDFExtractor.extract_receipt_data (src/services/pdf_service.py)
\* ======================================================================
\* A text is the sequence of its characters.
Whitespace == {" ", "\n", "\t"}
Digits == {"0", "1", "2", "3", "4", "5", "6", "7", "8", "9"}
UpperCase == << "A", "B", "C", "D", "E", "F", "G", "H", "I", "J", "K", "L", "M",
                "N", "O", "P", "Q", "R", "S", "T", "U", "V", "W", "X", "Y", "Z" >>
LowerCase == << "a", "b", "c", "d", "e", "f", "g", "h", "i", "j", "k", "l", "m",
                "n", "o", "p", "q", "r", "s", "t", "u", "v", "w", "x", "y", "z" >>

\* re.I: the lower-case form of a character.
Lower(c) ==
    IF \E j \in 1..26 : UpperCase[j] = c
      THEN LowerCase[CHOOSE j \in 1..26 : UpperCase[j] = c] ELSE c

\* str.strip()
RECURSIVE LStrip(_)
LStrip(t) == IF t # <<>> /\ Head(t) \in Whitespace THEN LStrip(Tail(t)) ELSE t

RECURSIVE RStrip(_)
RStrip(t) ==
    IF t # <<>> /\ t[Len(t)] \in Whitespace THEN RStrip(SubSeq(t, 1, Len(t) - 1)) ELSE t

Strip(t) == RStrip(LStrip(t))

\* The number of characters of t that are not whitespace.
NonWhitespace(t) == Len(SelectSeq(t, LAMBDA c : c \notin Whitespace))

\* The test of lines 161, 165, 167, 173 and 181, negated:
\* not (not text or len(text.strip()) < 20)
Clears(t) == Len(Strip(t)) >= 20

\* "" : nothing recovered
TextEmpty ==
    << >>

\* "Total: 5.00\n" : 11 characters once stripped
TextShort ==
    << "T", "o", "t", "a", "l", ":", " ", "5", ".", "0", "0", "\n" >>

\* " a b c d e f g h i j k\n" : 21 characters once stripped, 11 of them not whitespace
TextSpaced ==
    << " ", "a", " ", "b", " ", "c", " ", "d", " ", "e", " ", "f", " ",
       "g", " ", "h", " ", "i", " ", "j", " ", "k", "\n" >>

\* "Coffee shop\nTotal: 42.50"
TextTotal ==
    << "C", "o", "f", "f", "e", "e", " ", "s", "h", "o", "p", "\n", "T",
       "o", "t", "a", "l", ":", " ", "4", "2", ".", "5", "0" >>

\* "Subtotal: 40.00\nTOTAL: $42.50"
TextSubThenTotal ==
    << "S", "u", "b", "t", "o", "t", "a", "l", ":", " ", "4", "0", ".",
       "0", "0", "\n", "T", "O", "T", "A", "L", ":", " ", "$", "4", "2",
       ".", "5", "0" >>

\* "Subtotal: 40.00\nAmount due: 45.00"
TextSubThenDue ==
    << "S", "u", "b", "t", "o", "t", "a", "l", ":", " ", "4", "0", ".",
       "0", "0", "\n", "A", "m", "o", "u", "n", "t", " ", "d", "u", "e",
       ":", " ", "4", "5", ".", "0", "0" >>

\* "card 100,000.00 cash 12.50"
TextDecimals ==
    << "c", "a", "r", "d", " ", "1", "0", "0", ",", "0", "0", "0", ".",
       "0", "0", " ", "c", "a", "s", "h", " ", "1", "2", ".", "5", "0" >>

\* "thank you, come again"
TextNoAmounts ==
    << "t", "h", "a", "n", "k", " ", "y", "o", "u", ",", " ", "c", "o",
       "m", "e", " ", "a", "g", "a", "i", "n" >>

Texts == {TextEmpty, TextShort, TextSpaced, TextTotal, TextSubThenTotal,
          TextSubThenDue, TextDecimals, TextNoAmounts}

\* ---------------------------------------------------------- regex fallback
\* The first position from p on whose character is not in set (greedy x*).
RECURSIVE SkipWhile(_, _, _)
SkipWhile(t, p, set) ==
    IF p <= Len(t) /\ t[p] \in set THEN SkipWhile(t, p + 1, set) ELSE p

\* A label of TOTAL_PATTERNS matched at position p, ignoring case; "~" in the
\* label stands for \s*.  The position after the match, 0 when there is none.
RECURSIVE MatchLabel(_, _, _)
MatchLabel(t, p, label) ==
    IF label = <<>> THEN p
    ELSE IF Head(label) = "~"
      THEN MatchLabel(t, SkipWhile(t, p, Whitespace), Tail(label))
    ELSE IF p <= Len(t) /\ Lower(t[p]) = Head(label)
      THEN MatchLabel(t, p + 1, Tail(label))
    ELSE 0

\* label[:\s]*\$?([\d,]+\.?\d*) matched at position p: the position after the
\* match (0 when there is none) and group(1).
MatchTotal(t, p, label) ==
    LET a == MatchLabel(t, p, label)
        b == SkipWhile(t, a, Whitespace \cup {":"})
        c == IF b <= Len(t) /\ t[b] = "$" THEN b + 1 ELSE b
        d == SkipWhile(t, c, Digits \cup {","})
        e == IF d <= Len(t) /\ t[d] = "." THEN d + 1 ELSE d
        f == SkipWhile(t, e, Digits)
    IN IF a = 0 \/ d = c THEN [end |-> 0, group |-> <<>>]
       ELSE [end |-> f, group |-> SubSeq(t, c, f - 1)]

\* pattern.finditer(text) from position p: group(1) of the matches, left to
\* right, no two overlapping.
RECURSIVE FindTotals(_, _, _)
FindTotals(t, p, label) ==
    IF p > Len(t) THEN <<>>
    ELSE LET m == MatchTotal(t, p, label)
         IN IF m.end = 0 THEN FindTotals(t, p + 1, label)
            ELSE <<m.group>> \o FindTotals(t, m.end, label)

\* DECIMAL_PATTERN [\d,]+\.\d{2} matched at position p.
MatchDecimal(t, p) ==
    LET d == SkipWhile(t, p, Digits \cup {","})
    IN IF /\ d > p
          /\ d + 2 <= Len(t)
          /\ t[d] = "."
          /\ t[d + 1] \in Digits
          /\ t[d + 2] \in Digits
         THEN [end |-> d + 3, group |-> SubSeq(t, p, d + 2)]
         ELSE [end |-> 0, group |-> <<>>]

RECURSIVE FindDecimals(_, _)
FindDecimals(t, p) ==
    IF p > Len(t) THEN <<>>
    ELSE LET m == MatchDecimal(t, p)
         IN IF m.end = 0 THEN FindDecimals(t, p + 1)
            ELSE <<m.group>> \o FindDecimals(t, m.end)

DigitValue(c) == CHOOSE v \in 0..9 : ToString(v) = c

RECURSIVE IntValue(_)
IntValue(ds) ==
    IF ds = <<>> THEN 0
    ELSE 10 * IntValue(SubSeq(ds, 1, Len(ds) - 1)) + DigitValue(ds[Len(ds)])

\* An amount is counted in hundredths; NoAmount stands for None.
NoAmount == -1

\* _parse_amount, lines 193-201: commas and everything but digits and dots are
\* removed and float() is applied; None for an empty value and for what
\* float() rejects.  Digits after the second decimal are not kept.
ParseAmount(value) ==
    LET cleaned == SelectSeq(value, LAMBDA c : c \in Digits \cup {"."})
        dots == Len(SelectSeq(cleaned, LAMBDA c : c = "."))
        dot == IF dots = 0 THEN Len(cleaned) + 1
               ELSE CHOOSE j \in 1..Len(cleaned) : cleaned[j] = "."
        whole == SubSeq(cleaned, 1, dot - 1)
        frac == SubSeq(cleaned, dot + 1, Len(cleaned))
    IN IF value = <<>> \/ dots > 1 \/ Len(cleaned) = dots THEN NoAmount
       ELSE 100 * IntValue(whole)
            + (IF Len(frac) = 0 THEN 0
               ELSE IF Len(frac) = 1 THEN 10 * DigitValue(frac[1])
               ELSE 10 * DigitValue(frac[1]) + DigitValue(frac[2]))

\* The labels of TOTAL_PATTERNS, lines 42-47, in the order of the list.
TOTAL_PATTERNS ==
    << << "t", "o", "t", "a", "l" >>,
       << "g", "r", "a", "n", "d", "~", "t", "o", "t", "a", "l" >>,
       << "a", "m", "o", "u", "n", "t", "~", "d", "u", "e" >>,
       << "s", "u", "b", "t", "o", "t", "a", "l" >> >>

\* The amounts of the groups that parse to a positive amount (`amt and amt > 0`).
PositiveAmounts(groups) ==
    LET amts == [j \in 1..Len(groups) |-> ParseAmount(groups[j])]
    IN SelectSeq(amts, LAMBDA a : a > 0)

RECURSIVE LabeledAmounts(_, _)
LabeledAmounts(t, patterns) ==
    IF patterns = <<>> THEN <<>>
    ELSE PositiveAmounts(FindTotals(t, 1, Head(patterns)))
         \o LabeledAmounts(t, Tail(patterns))

\* The sanity check of line 215, in hundredths.
SanityCeiling == 100000 * 100

\* _extract_totals_from_text, lines 203-217
ExtractTotalsFromText(t) ==
    LET amounts == LabeledAmounts(t, TOTAL_PATTERNS)
    IN IF amounts # <<>> THEN amounts
       ELSE SelectSeq(PositiveAmounts(FindDecimals(t, 1)),
                      LAMBDA a : a < SanityCeiling)

\* ----------------------------------------------------------- the pipeline
ImageExts == {".jpg", ".jpeg", ".png", ".webp"}

\* datetime.now().strftime("%d/%m/%Y")
TODAY == "today"

\* ------------------------------------------- what Gemini answers, parsed
\* A value of the JSON Gemini answers, once json.loads has read it: a key that
\* is not there, null, a number (in hundredths) or a string.
JAbsent == [kind |-> "absent", val |-> 0, text |-> <<>>]
JNull == [kind |-> "null", val |-> 0, text |-> <<>>]
JNumber(v) == [kind |-> "number", val |-> v, text |-> <<>>]
JString(t) == [kind |-> "string", val |-> 0, text |-> t]

\* The Date and the Item of an element, which are only passed through str().
SAbsent == [kind |-> "absent", s |-> ""]
SNull == [kind |-> "null", s |-> ""]
SText(s) == [kind |-> "string", s |-> s]

\* An element of the list Gemini answers; one that is no object has dict FALSE.
JRow(date, item, price, qty, total) ==
    [dict |-> TRUE, Date |-> date, Item |-> item, Price |-> price, Qty |-> qty,
     Total |-> total]

RowCoffee ==
    JRow(SText("09/02/2021"), SText("Coffee"), JNumber(450), JNumber(100), JNumber(450))
\* "Total": "0.32", "Date": "", no price, no quantity
RowTax == JRow(SText(""), SText("Sales Tax"), JAbsent, JAbsent, JString(<< "0", ".", "3", "2" >>))
\* "Total": "1,234.56", no date
RowLaptop ==
    JRow(SAbsent, SText("Laptop"), JNumber(123456), JNumber(100),
         JString(<< "1", ",", "2", "3", "4", ".", "5", "6" >>))
\* "Price": "N/A", "Qty": "2", "Total": "$9.00", no date
RowVoucher ==
    JRow(SAbsent, SText("Voucher"), JString(<< "N", "/", "A" >>),
         JString(<< "2" >>), JString(<< "$", "9", ".", "0", "0" >>))
\* an element that is a string, not an object
RowNote == [dict |-> FALSE, Date |-> SAbsent, Item |-> SAbsent, Price |-> JAbsent,
            Qty |-> JAbsent, Total |-> JAbsent]

\* str(item.get(key, default)), lines 341-342
PyStr(v, default) ==
    IF v.kind = "absent" THEN default
    ELSE IF v.kind = "null" THEN "None"
    ELSE v.s

\* item.get(key, default), lines 343-345
Get(v, default) == IF v.kind = "absent" THEN JNumber(default) ELSE v

\* The truth value Python gives a JSON value.
Truthy(v) ==
    \/ v.kind = "number" /\ v.val # 0
    \/ v.kind = "string" /\ v.text # <<>>

\* float() of a string: blanks around it are dropped, then digits with at most
\* one dot are read; anything else is a ValueError (NoAmount).  Signs and
\* exponents are not modelled.
PyFloat(t) ==
    LET c == Strip(t)
    IN IF c # <<>> /\ \A j \in 1..Len(c) : c[j] \in Digits \cup {"."}
         THEN ParseAmount(c)
         ELSE NoAmount

\* `float(x) if x else default`, lines 348-350: the number, or the exception.
Coerce(v, default) ==
    IF ~Truthy(v) THEN [ok |-> TRUE, val |-> default]
    ELSE IF v.kind = "number" THEN [ok |-> TRUE, val |-> v.val]
    ELSE [ok |-> PyFloat(v.text) # NoAmount,
          val |-> IF PyFloat(v.text) # NoAmount THEN PyFloat(v.text) ELSE 0]

\* A field no float() was stored into keeps what the answer had: a number is a
\* number, a string or null is not.
Kept(v) ==
    IF v.kind = "number" THEN Num(v.val)
    ELSE [numeric |-> FALSE, val |-> 0, raw |-> v]

\* lines 340-353: the row built from an element.  The three float() calls
\* are in one try whose except clause passes: the first that raises leaves its
\* field and those after it as they were.
NormalizeRow(r) ==
    LET price == Get(r.Price, 0)
        qty == Get(r.Qty, 100)
        total == Get(r.Total, 0)
        p == Coerce(price, 0)
        q == Coerce(qty, 100)
        t == Coerce(total, 0)
    IN [Date |-> PyStr(r.Date, TODAY),
        Item |-> PyStr(r.Item, "Unknown"),
        Price |-> IF p.ok THEN Num(p.val) ELSE Kept(price),
        Qty |-> IF p.ok /\ q.ok THEN Num(q.val) ELSE Kept(qty),
        Total |-> IF p.ok /\ q.ok /\ t.ok THEN Num(t.val) ELSE Kept(total)]

\* _parse_gemini_json_response, lines 335-355, on the list json.loads read:
\* elements that are no objects are skipped.  <<>> stands for None.
ParseGeminiJson(rows) ==
    LET dicts == SelectSeq(rows, LAMBDA r : r.dict)
    IN [j \in 1..Len(dicts) |-> NormalizeRow(dicts[j])]

\* ------------------------------------------------ the tables of pdfplumber
\* A row of a table, zipped with the header: the cells under item, price, qty
\* and total, stripped; a cell that is not there or is empty is "" or <<>>.
TRow(item, price, qty, total) ==
    [item |-> item, price |-> price, qty |-> qty, total |-> total]

TRowCoffee == TRow("Coffee", << "4", ".", "5", "0" >>, << "1" >>, << "4", ".", "5", "0" >>)
\* no total: 3 at 2.00
TRowTea == TRow("Tea", << "2", ".", "0", "0" >>, << "3" >>, <<>>)
\* no item name and no total: 3 at 2.00
TRowNameless == TRow("", << "2", ".", "0", "0" >>, << "3" >>, <<>>)

\* lines 233-243: the item of a row, or nothing.  `x or y` takes y for None
\* and for 0.
TableRowItems(row) ==
    LET price == ParseAmount(row.price)
        parsedQty == ParseAmount(row.qty)
        qty == IF parsedQty \in {NoAmount, 0} THEN 100 ELSE parsedQty
        total == ParseAmount(row.total)
        hasTotal == total \notin {NoAmount, 0}
        hasPrice == price \notin {NoAmount, 0}
    IN IF row.item # "" \/ hasTotal
         THEN << [Item |-> IF row.item # "" THEN row.item ELSE "Unknown",
                  Price |-> Num(IF hasPrice THEN price ELSE 0),
                  Qty |-> Num(qty),
                  Total |-> Num(IF hasTotal THEN total
                                ELSE IF hasPrice THEN (price * qty) \div 100 ELSE 0),
                  Date |-> ""] >>
         ELSE <<>>

\* _extract_items_from_tables, lines 219-244; an item of a table has no Date
\* key, which is the empty date here.
RECURSIVE ExtractItemsFromTables(_)
ExtractItemsFromTables(rows) ==
    IF rows = <<>> THEN <<>>
    ELSE TableRowItems(Head(rows)) \o ExtractItemsFromTables(Tail(rows))

LayerTexts == {TextEmpty, TextShort, TextTotal, TextSubThenTotal}
OcrTexts == {TextEmpty, TextSpaced, TextSubThenDue, TextNoAmounts}
VisionTexts == {TextEmpty, TextSpaced, TextDecimals, TextTotal}

\* A document and what the engines answer for it: the list Gemini Vision
\* answers to the direct parse, the text of pdfplumber (which may raise), of
\* pytesseract and of the Gemini Vision transcription, the list Gemini
\* answers for the text, the rows of the pdfplumber tables (which may
\* raise).  An empty list stands for no answer and for one that is no JSON
\* list as well as for [].
Stubs ==
    {st \in [ext : {".pdf", ".jpg"},
             ocr_available : BOOLEAN,
             vision_rows : {<<>>, <<RowCoffee>>, <<RowCoffee, RowTax>>,
                            <<RowLaptop, RowNote>>},
             text_layer_raises : BOOLEAN,
             text_layer : LayerTexts,
             ocr_text : OcrTexts,
             vision_text : VisionTexts,
             ai_rows : {<<>>, <<RowTax, RowCoffee>>, <<RowVoucher>>},
             tables_raise : BOOLEAN,
             tables : {<<>>, <<TRowCoffee>>, <<TRowTea, TRowNameless>>}] :
        /\ st.text_layer_raises => st.text_layer = TextEmpty
        /\ st.tables_raise => st.tables = <<>>}

QualityError == "Unable to extract text"
AmountsError == "Unable to extract amounts"

SubCall(name, t) == [sub |-> name, text |-> t]

\* extract_text, lines 157-169: a PDF.
ExtractTextPdf(st) ==
    LET c1 == << SubCall("text_layer", st.text_layer) >>
        tryOcr == ~Clears(st.text_layer) /\ st.ocr_available
        t2 == IF tryOcr THEN st.ocr_text ELSE st.text_layer
        c2 == IF tryOcr THEN Append(c1, SubCall("ocr", st.ocr_text)) ELSE c1
        tryVision == ~Clears(t2) /\ st.ocr_available
        t3 == IF tryVision /\ Clears(st.vision_text) THEN st.vision_text ELSE t2
        c3 == IF tryVision THEN Append(c2, SubCall("vision_text", st.vision_text)) ELSE c2
    IN IF st.text_layer_raises
         THEN [raised |-> TRUE, text |-> <<>>, subcalls |-> c1]
         ELSE [raised |-> FALSE, text |-> t3, subcalls |-> c3]

\* extract_text, lines 170-177: an image.
ExtractTextImage(st) ==
    LET c1 == << SubCall("vision_text", st.vision_text) >>
    IN IF Clears(st.vision_text)
         THEN [raised |-> FALSE, text |-> st.vision_text, subcalls |-> c1]
       ELSE IF st.ocr_available
         THEN [raised |-> FALSE, text |-> st.ocr_text,
               subcalls |-> Append(c1, SubCall("ocr", st.ocr_text))]
       ELSE [raised |-> FALSE, text |-> <<>>, subcalls |-> c1]

\* extract_text, lines 138-191
ExtractText(st) ==
    LET r == IF st.ext = ".pdf" THEN ExtractTextPdf(st) ELSE ExtractTextImage(st)
    IN IF r.raised
         THEN [raised |-> TRUE, text |-> <<>>, success |-> FALSE,
               error_msg |-> "", subcalls |-> r.subcalls]
       ELSE IF ~Clears(r.text)
         THEN [raised |-> FALSE, text |-> <<>>, success |-> FALSE,
               error_msg |-> QualityError, subcalls |-> r.subcalls]
       ELSE [raised |-> FALSE, text |-> Strip(r.text), success |-> TRUE,
             error_msg |-> "", subcalls |-> r.subcalls]

NoOutcome == [items |-> <<>>, success |-> FALSE, error_msg |-> "", method |-> "none"]

\* extract_receipt_data entered, lines 407-411
\* What is remembered of the call before this one: how it ended and with what.
NoEarlier == [pc |-> "none", outcome |-> NoOutcome]

\* extract_receipt_data entered, lines 407-411
StartRun ==
    [pc |-> "vision", items |-> <<>>, method |-> "regex_fallback", text |-> <<>>,
     calls |-> <<>>, subcalls |-> <<>>, outcome |-> NoOutcome,
     runs |-> 1, earlier |-> NoEarlier]

StageCall(name, items) == [stage |-> name, yielded |-> items]

\* Mutant: every stage is run, whatever the stages before it have found.
AdvancesAlways(items) == TRUE

\* `if not items`, lines 427, 436, 442
Advances(items) == items = <<>>

\* lines 413-424: the direct Gemini Vision parse, of an image or of the pages
\* of a PDF (when pdf2image is there).
PVision ==
    /\ run.pc = "vision"
    /\ LET applies == stub.ext \in ImageExts \/ (stub.ext = ".pdf" /\ stub.ocr_available)
           items == IF applies THEN ParseGeminiJson(stub.vision_rows) ELSE run.items
       IN run' = [run EXCEPT
                    !.items = items,
                    !.method = IF applies /\ items # <<>> THEN "gemini_vision" ELSE @,
                    !.calls = IF applies THEN Append(@, StageCall("gemini_vision", items))
                              ELSE @,
                    !.pc = IF Advances(items) THEN "text" ELSE "dates"]
    /\ UNCHANGED <<stub, botVars>>

\* lines 427-430: extract_text; its failure ends the call.
PText ==
    /\ run.pc = "text"
    /\ LET r == ExtractText(stub)
       IN run' = IF r.raised
                   THEN [run EXCEPT !.pc = "raised", !.subcalls = r.subcalls]
                 ELSE IF ~r.success
                   THEN [run EXCEPT !.pc = "returned", !.subcalls = r.subcalls,
                                    !.outcome = [items |-> <<>>, success |-> FALSE,
                                                 error_msg |-> r.error_msg,
                                                 method |-> "text_extraction_failed"]]
                 ELSE [run EXCEPT !.pc = "structure", !.subcalls = r.subcalls,
                                  !.text = r.text]
    /\ UNCHANGED <<stub, botVars>>

\* lines 431-433: Gemini structures the text.
PStructure ==
    /\ run.pc = "structure"
    /\ LET items == ParseGeminiJson(stub.ai_rows)
       IN run' = [run EXCEPT
                    !.items = items,
                    !.method = IF items # <<>> THEN "gemini_text" ELSE @,
                    !.calls = Append(@, StageCall("gemini_text", items)),
                    !.pc = IF ~Advances(items) THEN "dates"
                           ELSE IF stub.ext = ".pdf" THEN "tables" ELSE "regex"]
    /\ UNCHANGED <<stub, botVars>>

\* lines 436-439: the pdfplumber tables of a PDF.
PTables ==
    /\ run.pc = "tables"
    /\ LET items == ExtractItemsFromTables(stub.tables)
       IN run' = IF stub.tables_raise
                   THEN [run EXCEPT !.pc = "raised",
                                    !.calls = Append(@, StageCall("pdfplumber_tables", <<>>))]
                   ELSE [run EXCEPT
                           !.items = items,
                           !.method = IF items # <<>> THEN "pdfplumber_tables" ELSE @,
                           !.calls = Append(@, StageCall("pdfplumber_tables", items)),
                           !.pc = IF Advances(items) THEN "regex" ELSE "dates"]
    /\ UNCHANGED <<stub, botVars>>

\* lines 442-458: the first amount the regexes find becomes the one item.
PRegex ==
    /\ run.pc = "regex"
    /\ LET amounts == ExtractTotalsFromText(run.text)
           items == IF amounts # <<>>
                      THEN << [Item |-> "Receipt Total", Price |-> Num(amounts[1]),
                               Qty |-> Num(100), Total |-> Num(amounts[1]),
                               Date |-> TODAY] >>
                      ELSE <<>>
       IN run' = IF amounts # <<>>
                   THEN [run EXCEPT !.items = items, !.method = "regex_fallback",
                                    !.calls = Append(@, StageCall("regex_fallback", items)),
                                    !.pc = "dates"]
                   ELSE [run EXCEPT !.pc = "returned",
                                    !.calls = Append(@, StageCall("regex_fallback", items)),
                                    !.outcome = [items |-> <<>>, success |-> FALSE,
                                                 error_msg |-> AmountsError,
                                                 method |-> "failed"]]
    /\ UNCHANGED <<stub, botVars>>

\* Mutant: an item without a date is left out of the result.
EnsureDatesDroppingUndated(items) == SelectSeq(items, LAMBDA it : it.Date # "")

\* lines 460-464
EnsureDates(items) ==
    [j \in 1..Len(items) |->
        IF items[j].Date = "" THEN [items[j] EXCEPT !.Date = TODAY] ELSE items[j]]

\* lines 460-466: every item is dated and the result returned.
PDates ==
    /\ run.pc = "dates"
    /\ run' = [run EXCEPT !.pc = "returned", !.items = EnsureDates(@),
                          !.outcome = [items |-> EnsureDates(run.items), success |-> TRUE,
                                       error_msg |-> "", method |-> run.method]]
    /\ UNCHANGED <<stub, botVars>>

\* Mutant: the items of the call before are still there when the next begins.
RunAfterKeepingItems(r) ==
    [StartRun EXCEPT !.items = r.items, !.runs = r.runs + 1,
                     !.earlier = [pc |-> r.pc, outcome |-> r.outcome]]

\* lines 407-411: the locals of a call are set anew, whatever the call before
\* it did; the extractor keeps nothing but ocr_available.
RunAfter(r) ==
    [StartRun EXCEPT !.runs = r.runs + 1,
                     !.earlier = [pc |-> r.pc, outcome |-> r.outcome]]

\* extract_receipt_data is called again on the same document, the engines
\* answering as before.
PAgain ==
    /\ run.pc \in {"returned", "raised"}
    /\ run.runs < MaxRuns
    /\ run' = RunAfter(run)
    /\ UNCHANGED <<stub, botVars>>

\* extract_receipt_data called on a document, the bot at rest.
InitPipe ==
    /\ arrived = 0
    /\ pending = <<>>
    /\ batches = <<>>
    /\ lock = NoTask
    /\ cur = NoTask
    /\ hpc = "idle"
    /\ hmsg = NoGroup
    /\ tasks = <<>>
    /\ files = {}
    /\ workers = {}
    /\ soa = <<>>
    /\ drive = {}
    /\ sent = <<>>
    /\ window = <<>>
    /\ inbox = <<>>
    /\ handed = <<>>
    /\ stub \in Stubs
    /\ run = StartRun
    /\ NoMeeting

NextPipe ==
    \/ PVision
    \/ PText
    \/ PStructure
    \/ PTables
    \/ PRegex
    \/ PDates
    \/ PAgain

SpecPipe == InitPipe /\ [][NextPipe]_vars

\* ======================================================================
\* handle_receipt_extraction: one document that is not part of an album
\* ======================================================================
\* The document handled is document 1 and its handler is task 1; the locals
\* of the handler are those of a flush task that have the same names.
TheDoc == 1

\* Mutant: the handler goes on to the sheet and to Drive whatever the outcome.
GoesOnAlways(res) == TRUE

\* `if not success: ... return`, lines 534-536
GoesOn(res) == res.success

\* The handler is entered (lines 486-498): load_config and the test of the
\* configuration run to the first await, the "not configured" reply, the reply
\* of the outer except or get_file.
SStart ==
    /\ tasks[1].pc = "s_start"
    /\ \E cfg \in {"ok", "unconfigured", "raises"}, folder \in BOOLEAN :
         /\ (cfg # "ok") => ~folder
         /\ tasks' = [tasks EXCEPT ![1] =
                        IF cfg = "unconfigured" THEN [@ EXCEPT !.pc = "s_send_cfg"]
                        ELSE IF cfg = "raises" THEN [@ EXCEPT !.pc = "s_send_err"]
                        ELSE [@ EXCEPT !.pc = "s_get_file", !.drive_folder_id = folder]]
    /\ UNCHANGED <<sent, files, workers, soa, drive>>
    /\ UNCHANGED <<arrived, cur, window, handed, batches>>
    /\ UNCHANGED collectorVars
    /\ UNCHANGED <<pipeVars, meetVars, inbox>>

\* lines 498-507: get_file answered; the "Received PDF(s)" notice is sent.
SGetFileDone ==
    /\ tasks[1].pc = "s_get_file"
    /\ \E ok \in BOOLEAN :
         tasks' = [tasks EXCEPT ![1].pc = IF ok THEN "s_notice" ELSE "s_send_err"]
    /\ UNCHANGED <<sent, files, workers, soa, drive>>
    /\ UNCHANGED <<arrived, cur, window, handed, batches>>
    /\ UNCHANGED collectorVars
    /\ UNCHANGED <<pipeVars, meetVars, inbox>>

\* lines 507-510: the notice answered; the temporary file is created and the
\* download awaited.
SNoticeDone ==
    /\ tasks[1].pc = "s_notice"
    /\ \E ok \in BOOLEAN :
         /\ sent' = IF ok THEN [sent EXCEPT ![1] = Append(@, "received")] ELSE sent
         /\ files' = IF ok THEN files \cup {TheDoc} ELSE files
         /\ tasks' = [tasks EXCEPT ![1].pc = IF ok THEN "s_download" ELSE "s_send_err"]
    /\ UNCHANGED <<workers, soa, drive>>
    /\ UNCHANGED <<arrived, cur, window, handed, batches>>
    /\ UNCHANGED collectorVars
    /\ UNCHANGED <<pipeVars, meetVars, inbox>>

\* lines 510-527: the download answered; the extraction is handed to the
\* executor and awaited under the timeout.  A raise leaves the try of line 513
\* unentered: the file stays.
SDownloadDone ==
    /\ tasks[1].pc = "s_download"
    /\ \E ok \in BOOLEAN :
         /\ workers' = IF ok THEN workers \cup {TheDoc} ELSE workers
         /\ tasks' = [tasks EXCEPT ![1].pc = IF ok THEN "s_extract" ELSE "s_send_err"]
    /\ UNCHANGED <<sent, files, soa, drive>>
    /\ UNCHANGED <<arrived, cur, window, handed, batches>>
    /\ UNCHANGED collectorVars
    /\ UNCHANGED <<pipeVars, meetVars, inbox>>

\* lines 521-527: the extraction is still running and the time waited grows.
SExtractWait ==
    /\ tasks[1].pc = "s_extract"
    /\ tasks[1].waited < EXTRACT_TIMEOUT
    /\ tasks' = [tasks EXCEPT ![1].waited =
                    IF @ + WaitStep < EXTRACT_TIMEOUT THEN @ + WaitStep
                    ELSE EXTRACT_TIMEOUT]
    /\ UNCHANGED <<sent, files, workers, soa, drive>>
    /\ UNCHANGED <<arrived, cur, window, handed, batches>>
    /\ UNCHANGED collectorVars
    /\ UNCHANGED <<pipeVars, meetVars, inbox>>

\* lines 520-561: the awaited extraction ends.  A timeout and a failed outcome
\* are answered with a reply, awaited inside the try; an exception of the
\* extractor or of update_soa runs the finally clause and reaches the outer
\* except; a successful outcome is written to the sheet and the handler goes
\* on to the Drive upload or to the summary.
SExtractDone ==
    /\ tasks[1].pc = "s_extract"
    /\ LET r == [tasks[1] EXCEPT !.waited = 0]
           late == tasks[1].waited = EXTRACT_TIMEOUT
           ends(kind) == [r EXCEPT !.fate = Append(@, [kind |-> kind, items |-> <<>>])]
       IN \/ /\ late
             /\ tasks' = [tasks EXCEPT ![1] = [ends("timed_out") EXCEPT !.pc = "s_send_timeout"]]
             /\ UNCHANGED <<workers, files, soa>>
          \/ /\ ~late
             /\ workers' = workers \ {TheDoc}
             /\ files' = files \ {TheDoc}
             /\ tasks' = [tasks EXCEPT ![1] = [ends("raised") EXCEPT !.pc = "s_send_err"]]
             /\ soa' = soa
          \/ \E res \in Outcomes, soaOk \in BOOLEAN :
               /\ ~late
               /\ ~GoesOn(res) => soaOk
               /\ workers' = workers \ {TheDoc}
               /\ LET new == ItemsFrom(TheDoc, res.items)
                      merged == [r EXCEPT !.all_items = new,
                                          !.lines = SummaryLines(new),
                                          !.total_amount = SumTotals(new),
                                          !.methods_used = {res.method},
                                          !.fate = Append(@, [kind |-> IF res.success THEN "ok"
                                                                       ELSE "no_data",
                                                              items |-> new])]
                  IN IF ~GoesOn(res)
                       THEN /\ tasks' = [tasks EXCEPT ![1] =
                                            [ends("no_data") EXCEPT !.pc = "s_send_failed"]]
                            /\ UNCHANGED <<files, soa>>
                     ELSE IF ~soaOk
                       THEN /\ tasks' = [tasks EXCEPT ![1] =
                                            [ends("raised") EXCEPT !.pc = "s_send_err"]]
                            /\ files' = files \ {TheDoc}
                            /\ soa' = soa
                     ELSE /\ tasks' = [tasks EXCEPT ![1] =
                                          [merged EXCEPT !.pc =
                                              IF r.drive_folder_id /\ TheDoc \in files
                                                THEN "s_drive" ELSE "s_send_final"]]
                          /\ soa' = UpdateSoa(soa, new)
                          /\ files' = files
    /\ UNCHANGED <<sent, drive>>
    /\ UNCHANGED <<arrived, cur, window, handed, batches>>
    /\ UNCHANGED collectorVars
    /\ UNCHANGED <<pipeVars, meetVars, inbox>>

\* lines 550-561: the Drive upload answered.
SDriveDone ==
    /\ tasks[1].pc = "s_drive"
    /\ \E ok \in BOOLEAN :
         /\ drive' = IF ok THEN drive \cup {TheDoc} ELSE drive
         /\ tasks' = [tasks EXCEPT ![1] = [AfterUpload(@, ok) EXCEPT !.pc = "s_send_final"]]
    /\ UNCHANGED <<sent, files, workers, soa>>
    /\ UNCHANGED <<arrived, cur, window, handed, batches>>
    /\ UNCHANGED collectorVars
    /\ UNCHANGED <<pipeVars, meetVars, inbox>>

\* A reply awaited inside the try of line 513 answered: the finally clause of
\* lines 603-607 deletes the file; a reply that raised reaches the outer
\* except.
SReplyDone(at, msg) ==
    /\ tasks[1].pc = at
    /\ \E ok \in BOOLEAN :
         /\ sent' = IF ok THEN [sent EXCEPT ![1] = Append(@, msg)] ELSE sent
         /\ tasks' = [tasks EXCEPT ![1].pc = IF ok THEN "done" ELSE "s_send_err"]
    /\ files' = files \ {TheDoc}
    /\ UNCHANGED <<workers, soa, drive>>
    /\ UNCHANGED <<arrived, cur, window, handed, batches>>
    /\ UNCHANGED collectorVars
    /\ UNCHANGED <<pipeVars, meetVars, inbox>>

\* lines 528-532: the "Processing timed out" reply.
SSendTimeoutDone == SReplyDone("s_send_timeout", "timed_out")

\* lines 534-536: the reply with the error of the outcome.
SSendFailedDone == SReplyDone("s_send_failed", "extraction_error")

\* lines 575-602: the summary.
SSendFinalDone == SReplyDone("s_send_final", "summary")

\* lines 490-494: the "Google Sheets not configured" reply answered.
SSendCfgDone ==
    /\ tasks[1].pc = "s_send_cfg"
    /\ \E ok \in BOOLEAN :
         /\ sent' = IF ok THEN [sent EXCEPT ![1] = Append(@, "not_configured")] ELSE sent
         /\ tasks' = [tasks EXCEPT ![1].pc = IF ok THEN "done" ELSE "s_send_err"]
    /\ UNCHANGED <<files, workers, soa, drive>>
    /\ UNCHANGED <<arrived, cur, window, handed, batches>>
    /\ UNCHANGED collectorVars
    /\ UNCHANGED <<pipeVars, meetVars, inbox>>

\* lines 609-612: the reply of the outer except answered; when it fails too
\* the exception leaves the handler.
SSendErrDone ==
    /\ tasks[1].pc = "s_send_err"
    /\ \E ok \in BOOLEAN :
         /\ sent' = IF ok THEN [sent EXCEPT ![1] = Append(@, "error")] ELSE sent
         /\ tasks' = [tasks EXCEPT ![1].pc = IF ok THEN "done" ELSE "crashed"]
    /\ UNCHANGED <<files, workers, soa, drive>>
    /\ UNCHANGED <<arrived, cur, window, handed, batches>>
    /\ UNCHANGED collectorVars
    /\ UNCHANGED <<pipeVars, meetVars, inbox>>

\* The executor thread abandoned by the timeout runs to its end.
SWorkerFinish ==
    /\ TheDoc \in workers
    /\ tasks[1].pc # "s_extract"
    /\ workers' = workers \ {TheDoc}
    /\ UNCHANGED <<tasks, sent, files, soa, drive>>
    /\ UNCHANGED <<arrived, cur, window, handed, batches>>
    /\ UNCHANGED collectorVars
    /\ UNCHANGED <<pipeVars, meetVars, inbox>>

\* A document or a photo that carries the trigger was delivered outside any
\* album and handle_receipt_extraction is entered for it (lines 322, 659).
InitSingle ==
    /\ arrived = 1
    /\ pending = <<>>
    /\ batches = <<>>
    /\ lock = NoTask
    /\ cur = NoTask
    /\ hpc = "idle"
    /\ hmsg = NoGroup
    /\ tasks = << [NewTask(NoGroup) EXCEPT !.pc = "s_start", !.remaining = 0] >>
    /\ files = {}
    /\ workers = {}
    /\ soa = <<>>
    /\ drive = {}
    /\ sent = << <<>> >>
    /\ window = << <<>> >>
    /\ \E kind \in {"document", "photo"} :
          inbox = << Delivered([kind |-> kind, mg |-> NoGroup, trigger |-> TRUE,
                                extOk |-> TRUE], FALSE) >>
    /\ handed = << <<>> >>
    /\ stub = NoStub
    /\ run = NoRun
    /\ NoMeeting

NextSingle ==
    \/ SStart
    \/ SGetFileDone
    \/ SNoticeDone
    \/ SDownloadDone
    \/ SExtractWait
    \/ SExtractDone
    \/ SDriveDone
    \/ SSendTimeoutDone
    \/ SSendFailedDone
    \/ SSendFinalDone
    \/ SSendCfgDone
    \/ SSendErrDone
    \/ SWorkerFinish

SpecSingle == InitSingle /\ [][NextSingle]_vars

\* ======================================================================
\* start_meeting and end_meeting (src/bot.py:74-159)
\* ======================================================================
\* Updates are handled one at a time (Application.builder() without
\* concurrent_updates, line 787), so one meeting command is handled at a time.
Chats == {1, 2}
Users == {1, 2}
MaxNow == 2         \* datetime.now() takes the values 0..MaxNow
MaxRecorded == 2    \* /end_meeting is no longer sent once this many rows are written

\* Everything the meeting commands leave alone.
otherVars == <<collectorVars, sinkVars, pipeVars, arrived, batches, cur, tasks,
               sent, window, inbox, handed>>

\* d[k] = v (line 81, line 89).
With(f, k, v) == [x \in DOMAIN f \cup {k} |-> IF x = k THEN v ELSE f[x]]

\* del d[k] (line 110), d.pop(k) (line 107).
Without(f, k) == [x \in DOMAIN f \ {k} |-> f[x]]

\* The user has a meeting in the chat (the negation of the test of line 101).
Active(am, c, u) == c \in DOMAIN am /\ u \in DOMAIN am[c]

\* Lines 80-81: the chat gets an entry if it has none.
EnsureChat(am, c) == IF c \in DOMAIN am THEN am ELSE With(am, c, NoneActive)

StartAcceptedAlways(am, c, u) == TRUE

\* Line 83, negated: the user has no meeting in the chat yet.
StartAccepted(am, c, u) == u \notin DOMAIN EnsureChat(am, c)[c]

\* Lines 80-89: active_meetings after /start_meeting read at time t.
AfterStart(am, c, u, t) ==
    LET a == EnsureChat(am, c)
    IN  IF StartAccepted(am, c, u) THEN With(a, c, With(a[c], u, t)) ELSE a

\* Line 101, negated.
EndAccepted(am, c, u) == Active(am, c, u)

AfterPopKeepingMeeting(am, c, u) == am

\* Lines 107-110: the user's entry is popped, and the chat's entry is deleted
\* when it was the last one.
AfterPop(am, c, u) ==
    LET rest == Without(am[c], u)
    IN  IF DOMAIN rest = {} THEN Without(am, c) ELSE With(am, c, rest)

\* The row record_meeting_for_all writes (sheets_service.py:101-119).
MeetingRow(start, end) == [start |-> start, end |-> end]

\* datetime.now() advances.
MTick ==
    /\ now < MaxNow
    /\ now' = now + 1
    /\ UNCHANGED <<active_meetings, mh, sheet>>
    /\ UNCHANGED otherVars

\* start_meeting, lines 76-90: up to the reply it awaits.
StartMeeting(c, u) ==
    /\ mh.pc = "idle"
    /\ active_meetings' = AfterStart(active_meetings, c, u, now)
    /\ mh' = [pc |-> IF StartAccepted(active_meetings, c, u)
                     THEN "start_reply" ELSE "start_rejected",
              chat |-> c, user |-> u]
    /\ UNCHANGED <<now, sheet>>
    /\ UNCHANGED otherVars

\* end_meeting, lines 97-110: the rejection (101-105) or the pop.
EndMeeting(c, u) ==
    /\ mh.pc = "idle"
    /\ Len(sheet) < MaxRecorded
    /\ IF EndAccepted(active_meetings, c, u)
       THEN /\ active_meetings' = AfterPop(active_meetings, c, u)
            /\ mh' = [pc |-> "end_popped", chat |-> c, user |-> u,
                      time_start |-> active_meetings[c][u], time_end |-> now]
       ELSE /\ mh' = [pc |-> "end_rejected", chat |-> c, user |-> u]
            /\ UNCHANGED active_meetings
    /\ UNCHANGED <<now, sheet>>
    /\ UNCHANGED otherVars

\* end_meeting, lines 112-159 up to the reply it awaits: the sheet is not
\* configured (116), the meeting is recorded (130), or the recording raises
\* PermissionError (136) or another exception (156), in which case the rows
\* of some members may have been written already.
EndRecord(outcome, wrote) ==
    /\ mh.pc = "end_popped"
    /\ outcome \in {"not_configured", "recorded"} => wrote = (outcome = "recorded")
    /\ sheet' = IF wrote
                THEN Append(sheet, MeetingRow(mh.time_start, mh.time_end))
                ELSE sheet
    /\ mh' = [mh EXCEPT !.pc = CASE outcome = "not_configured" -> "end_reply_notcfg"
                                 [] outcome = "recorded" -> "end_reply_ok"
                                 [] outcome = "permission" -> "end_reply_perm"
                                 [] OTHER -> "end_reply_err"]
    /\ UNCHANGED <<active_meetings, now>>
    /\ UNCHANGED otherVars

\* The reply the handler awaits is sent or raises.  A reply that raises inside
\* the try block of line 112 (lines 117, 132) is caught at line 156, which
\* replies again; any other one ends the handler.
MReplyDone(ok) ==
    /\ mh.pc \in {"start_reply", "start_rejected", "end_rejected",
                  "end_reply_notcfg", "end_reply_ok", "end_reply_perm",
                  "end_reply_err"}
    /\ mh' = IF ~ok /\ mh.pc \in {"end_reply_notcfg", "end_reply_ok"}
             THEN [mh EXCEPT !.pc = "end_reply_err"]
             ELSE Idle
    /\ UNCHANGED <<active_meetings, now, sheet>>
    /\ UNCHANGED otherVars

\* No meeting is tracked when the bot starts (line 32).
InitMeet == Init

NextMeet ==
    \/ MTick
    \/ \E c \in Chats, u \in Users : StartMeeting(c, u)
    \/ \E c \in Chats, u \in Users : EndMeeting(c, u)
    \/ \E outcome \in {"not_configured", "recorded", "permission", "error"},
          wrote \in BOOLEAN : EndRecord(outcome, wrote)
    \/ \E ok \in BOOLEAN : MReplyDone(ok)

SpecMeet == InitMeet /\ [][NextMeet]_vars

\* ======================================================================
\* Properties
\* ======================================================================
Ended(k) == tasks[k].pc \in {"done", "crashed"}

\* The messages of task k that carry a result: every delivered message but
\* the "Processing n receipt(s)..." notice.
Results(k) == SelectSeq(sent[k], LAMBDA m : m # "processing")

\* C1: for the documents enqueued under one burst id while its window is open,
\* aggregation is started exactly once and the batch handed to it holds all of
\* them: a flush task that has ended and whose window saw documents has made
\* exactly one call of _process_media_group_receipts, with those documents in
\* arrival order.
C1_AggregationOnceWithAll ==
    \A k \in 1..Len(tasks) :
        (Ended(k) /\ window[k] # <<>>) => handed[k] = << window[k] >>

\* The part of C1 that holds whatever the transport does: at most one call,
\* and a call is given every document of the window.
C1_AtMostOnceWithAll ==
    \A k \in 1..Len(tasks) :
        /\ Len(handed[k]) <= 1
        /\ handed[k] # <<>> => (handed[k] = << window[k] >> /\ window[k] # <<>>)

\* C2: an enqueue for an unregistered id registers a new batch and arms exactly
\* one timer, an enqueue for a registered id only appends and arms none; so
\* every registered id has exactly one pending timer and an unregistered id
\* has none.
C2_Inv ==
    \A g \in Groups :
        Cardinality(PendingTimers(g)) = IF g \in DOMAIN pending THEN 1 ELSE 0

C2_Step ==
    (hpc = "locked" /\ hpc' = "release") =>
        IF hmsg \in DOMAIN pending
          THEN /\ tasks' = tasks
               /\ pending' = pending
               /\ Len(batches') = Len(batches)
               /\ batches'[pending[hmsg]].items =
                      Append(batches[pending[hmsg]].items, arrived)
          ELSE /\ Len(tasks') = Len(tasks) + 1
               /\ \A k \in 1..Len(tasks) : tasks'[k] = tasks[k]
               /\ tasks'[Len(tasks')].mg = hmsg
               /\ tasks'[Len(tasks')].pc = "sleep"
               /\ hmsg \in DOMAIN pending'
               /\ Len(batches') = Len(batches) + 1
               /\ pending'[hmsg] = Len(batches')
               /\ batches'[pending'[hmsg]].items = << arrived >>

C2_OneTimerPerRegisteredId == []C2_Inv /\ [][C2_Step]_vars

\* C2's case: a registered id whose batch took a second document, with its
\* one timer still pending.
C2_Witness ==
    \E g \in DOMAIN pending :
        /\ Len(batches[pending[g]].items) >= 2
        /\ Cardinality(PendingTimers(g)) = 1

\* C3: the debounce is fixed, not sliding.  While a batch is registered the
\* time since its first enqueue plus the time left on its timer is the delay
\* (plus the ticks the timer was due while the loop was blocked), whatever was
\* enqueued since; and a batch is sealed exactly that long after its first
\* enqueue.
C3_FixedDebounce ==
    \A k \in 1..Len(tasks) :
        /\ (TimerPending(k) /\ tasks[k].mg \in DOMAIN pending) =>
              batches[pending[tasks[k].mg]].elapsed + tasks[k].remaining
                  = MEDIA_GROUP_DELAY + tasks[k].jitter
        /\ tasks[k].data # NoBatch =>
              batches[tasks[k].data].elapsed = MEDIA_GROUP_DELAY + tasks[k].jitter
        /\ tasks[k].remaining > 0 => tasks[k].jitter = 0

\* C3's case: a batch sealed on time although its latest document came in
\* after the window had been open for a while.
C3_Witness ==
    \E k \in 1..Len(tasks) :
        /\ tasks[k].data # NoBatch
        /\ batches[tasks[k].data].lastAt >= 2
        /\ batches[tasks[k].data].elapsed = MEDIA_GROUP_DELAY

\* The batch objects some flush task has popped from the registry.
Sealed(b) == \E k \in 1..Len(tasks) : tasks[k].data = b

\* C4: a batch is popped exactly once, by the timer spawned with it; once
\* popped it is not registered again and its document list does not change;
\* a document without the trigger that arrives for an id no longer registered
\* joins no batch and starts none.
C4_Inv ==
    /\ \A k \in 1..Len(tasks) :
          tasks[k].data # NoBatch =>
              /\ batches[tasks[k].data].timer = k
              /\ \A g \in DOMAIN pending : pending[g] # tasks[k].data
    /\ \A j, k \in 1..Len(tasks) :
          (tasks[j].data # NoBatch /\ tasks[j].data = tasks[k].data) => j = k

C4_Step ==
    /\ \A b \in 1..Len(batches) : Sealed(b) => batches'[b].items = batches[b].items
    /\ (hpc = "test308" /\ hpc' # hpc /\ hmsg \notin DOMAIN pending) =>
          (hpc' = "idle" /\ pending' = pending /\ batches' = batches /\ tasks' = tasks)

C4_SealedOnceNeverResurrected == []C4_Inv /\ [][C4_Step]_vars

\* C4's case: an id whose batch was sealed is registered again, with a new
\* batch object that holds the document that arrived after the sealing.
C4_Witness ==
    \E k \in 1..Len(tasks) :
        /\ tasks[k].data # NoBatch
        /\ tasks[k].mg \in DOMAIN pending
        /\ pending[tasks[k].mg] # tasks[k].data
        /\ batches[pending[tasks[k].mg]].items # <<>>

\* C5: every test, creation, append and pop of the registry is made by a task
\* that holds _media_group_lock.
C5_RegistryOnlyUnderLock ==
    /\ hpc \in {"test308", "locked"} => lock = Handler
    /\ \A k \in 1..Len(tasks) : tasks[k].pc = "pop" => lock = Flush(k)

\* The accesses made inside `async with` are made under the lock.
C5_LockedAccesses ==
    /\ hpc = "locked" => lock = Handler
    /\ \A k \in 1..Len(tasks) : tasks[k].pc = "pop" => lock = Flush(k)

\* The awaits of a flush task: asyncio.sleep, send_message, get_file, the
\* download, the extraction, the Drive upload.
AwaitPcs == {"sleep", "notify", "get_file", "download", "extract", "drive",
             "send_final", "send_cfg", "send_err"}

\* C6: the lock is never held across an await: its holder is the task that is
\* running, no task waiting for a timer, a message, a download, an extraction
\* or an upload holds it, and a batch is handed to aggregation with the lock
\* released.
C6_LockNeverHeldAcrossAwait ==
    /\ lock # NoTask => cur = lock
    /\ \A k \in 1..Len(tasks) :
          (tasks[k].pc \in AwaitPcs \/ handed[k] # <<>>) => lock # Flush(k)

\* C6's case: a handler holds the lock while a sealed batch is being
\* extracted, the flush task having released it before.
C6_Witness ==
    /\ lock = Handler
    /\ \E k \in 1..Len(tasks) : tasks[k].pc = "extract" /\ handed[k] # <<>>

\* C7: every sealed batch with at least one document ends with exactly one
\* result message, whatever the transport and the storage do; one without
\* documents ends with none.
C7_ExactlyOneResult ==
    \A k \in 1..Len(tasks) :
        Ended(k) => Len(Results(k)) = IF ItemsOf(k) # <<>> THEN 1 ELSE 0

\* The part of C7 that holds whatever the transport does: never two results,
\* and exactly one once the notice of line 374 and one later reply got through.
C7_AtMostOneResult ==
    \A k \in 1..Len(tasks) :
        /\ Len(Results(k)) <= 1
        /\ tasks[k].pc = "done" => Len(Results(k)) = IF ItemsOf(k) # <<>> THEN 1 ELSE 0

\* ---------------------------------------------------------- aggregation
\* The loop of line 406 of task k is over and the final message chosen.
LoopOver(k) == tasks[k].report # "none"

ErrorsFor(k, p) == SelectSeq(tasks[k].errors, LAMBDA e : e.receipt = p)

MergedOf(k, d) == SelectSeq(tasks[k].all_items, LAMBDA it : it.doc = d)

Kinds(k) == [p \in 1..Len(tasks[k].fate) |-> tasks[k].fate[p].kind]

\* C8: a document that fails or times out at position p leaves exactly one
\* error entry, tagged p (and "Timed out" exactly for a timeout), and none of
\* its items; every other document is still processed and the items of those
\* that succeed are merged.  Three documents of which the second times out
\* give the summary with an error list, the items of documents 1 and 3 and the
\* one entry "Receipt 2: Timed out".
C8_FailureIsolation ==
    \A k \in 1..Len(tasks) :
        LoopOver(k) =>
          LET docs == ItemsOf(k)
              f == tasks[k].fate
          IN /\ Len(f) = Len(docs)
             /\ \A p \in 1..Len(f) :
                  IF f[p].kind = "ok"
                    THEN /\ f[p].items # <<>>
                         /\ MergedOf(k, docs[p]) = f[p].items
                         /\ ErrorsFor(k, p) = <<>>
                    ELSE /\ Len(ErrorsFor(k, p)) = 1
                         /\ (ErrorsFor(k, p)[1].msg = "Timed out") <=> (f[p].kind = "timed_out")
                         /\ MergedOf(k, docs[p]) = <<>>
             /\ Len(tasks[k].errors) = Cardinality({p \in 1..Len(f) : f[p].kind # "ok"})
             /\ Kinds(k) = <<"ok", "timed_out", "ok">> =>
                  /\ tasks[k].report = "summary_some_failed"
                  /\ tasks[k].all_items = f[1].items \o f[3].items
                  /\ tasks[k].errors = << [receipt |-> 2, msg |-> "Timed out"] >>

\* C8's case: the loop over three documents is over, the second timed out.
C8_Witness ==
    \E k \in 1..Len(tasks) :
        LoopOver(k) /\ Kinds(k) = <<"ok", "timed_out", "ok">>

\* C9: the batch ends with the plain summary iff every document succeeded,
\* with the all-failed message iff none did, and with the summary that lists
\* the errors otherwise; a batch with documents never ends with the
\* "no data" message, and a delivered final message is the one chosen.
C9_StatusOfBatch ==
    \A k \in 1..Len(tasks) :
        LoopOver(k) =>
          LET oks == {p \in 1..Len(tasks[k].fate) : tasks[k].fate[p].kind = "ok"}
              n == Len(ItemsOf(k))
          IN /\ (tasks[k].report = "summary") <=> (Cardinality(oks) = n)
             /\ (tasks[k].report = "all_failed") <=> (oks = {})
             /\ (tasks[k].report = "summary_some_failed")
                    <=> (oks # {} /\ Cardinality(oks) < n)
             /\ \A j \in 1..Len(sent[k]) :
                    sent[k][j] \in {"processing", "error", tasks[k].report}

\* C9's case: a batch of two, the first failed and the second succeeded, ends
\* with the summary that lists the error, and the message was delivered.
C9_Witness ==
    \E k \in 1..Len(tasks) :
        /\ tasks[k].pc = "done"
        /\ Kinds(k) = <<"no_data", "ok">>
        /\ sent[k] = <<"processing", "summary_some_failed">>

\* The items of the documents that succeeded so far, in the order of the loop.
RECURSIVE Flatten(_)
Flatten(f) == IF f = <<>> THEN <<>> ELSE Head(f).items \o Flatten(Tail(f))

\* C10: the documents of a batch are processed one at a time in enqueue order:
\* while document i + 1 is fetched or extracted the outcome of each of the
\* first i documents is recorded and of no later one, the only extraction
\* awaited is that document's, and the merged items are the items of the
\* successful documents in enqueue order.
C10_OneAtATimeInOrder ==
    \A k \in 1..Len(tasks) :
        /\ tasks[k].all_items = Flatten(tasks[k].fate)
        /\ \A p \in 1..Len(tasks[k].fate) :
              \A j \in 1..Len(tasks[k].fate[p].items) :
                  tasks[k].fate[p].items[j].doc = ItemsOf(k)[p]
        /\ tasks[k].pc \in {"get_file", "download", "extract"} =>
              Len(tasks[k].fate) = tasks[k].i
        /\ tasks[k].pc = "extract" =>
              /\ CurDoc(k) \in workers
              /\ \A d \in workers \ {CurDoc(k)} :
                    \E p \in 1..tasks[k].i :
                        ItemsOf(k)[p] = d /\ tasks[k].fate[p].kind = "timed_out"

\* C10's case: the third document is being extracted, the first gave two
\* items and the second one.
C10_Witness ==
    \E k \in 1..Len(tasks) :
        /\ tasks[k].pc = "extract"
        /\ tasks[k].i = 2
        /\ Len(tasks[k].fate[1].items) = 2
        /\ Len(tasks[k].fate[2].items) = 1

\* ------------------------------------------------- independence, timeout
\* C11: batches with distinct ids are independent: the work done for one
\* batch never delays another.  No debounce timer fires later than it is due:
\* the sealing of a batch is never held up by the aggregation of another one.
C11_NoDelayAcrossBatches ==
    \A k \in 1..Len(tasks) : tasks[k].jitter = 0

\* The documents of batch k whose extraction timed out.
TimedOut(k) ==
    {ItemsOf(k)[p] : p \in {q \in 1..Len(tasks[k].fate) :
                               tasks[k].fate[q].kind = "timed_out"}}

C12_Inv ==
    \A k \in 1..Len(tasks) :
        /\ tasks[k].waited \in 0..EXTRACT_TIMEOUT
        /\ \A p \in 1..Len(tasks[k].fate) :
              tasks[k].fate[p].kind = "timed_out" =>
                  /\ ErrorsFor(k, p) = << [receipt |-> p, msg |-> "Timed out"] >>
                  /\ MergedOf(k, ItemsOf(k)[p]) = <<>>
                  /\ \A j \in 1..Len(soa) : soa[j].doc # ItemsOf(k)[p]
        /\ \A p \in 1..Len(tasks[k].errors) :
              tasks[k].errors[p].msg = "Timed out" =>
                  tasks[k].fate[tasks[k].errors[p].receipt].kind = "timed_out"

C12_Step ==
    /\ \A k \in 1..Len(tasks) :
          LET r == tasks[k]
              q == tasks'[k]
          IN /\ (r.pc = "extract" /\ r.waited = EXTRACT_TIMEOUT /\ q # r) =>
                   /\ q.fate = Append(r.fate, [kind |-> "timed_out", items |-> <<>>])
                   /\ q.all_items = r.all_items
                   /\ soa' = soa
                   /\ workers' = workers
             /\ (Len(q.fate) > Len(r.fate) /\ q.fate[Len(q.fate)].kind = "timed_out") =>
                   (r.pc = "extract" /\ r.waited = EXTRACT_TIMEOUT)
    /\ \A d \in workers \ workers' :
          (\E k \in 1..Len(tasks) : d \in TimedOut(k)) =>
              /\ tasks' = tasks
              /\ soa' = soa
              /\ pending' = pending
              /\ batches' = batches
              /\ sent' = sent

\* C12: an extraction not completed when 120 time units have been waited ends
\* as a failure recorded as "Timed out", and only such an extraction does; the
\* executor thread may run on, and when it ends later nothing but the thread
\* changes: not the batch result, not the sheet, not the registry.
C12_TimeoutDiscardsLateResult == []C12_Inv /\ [][C12_Step]_vars

\* C12's case: a document timed out, its thread ended later, and the batch
\* went on to merge another document.
C12_Witness ==
    \E k \in 1..Len(tasks) :
        /\ TimedOut(k) # {}
        /\ TimedOut(k) \cap workers = {}
        /\ tasks[k].all_items # <<>>
        /\ LoopOver(k)

\* ------------------------------------------------------------ the pipeline
\* The place of a stage in the order vision, AI on text, tables, regex.
StageRank(name) ==
    CASE name = "gemini_vision" -> 1
      [] name = "gemini_text" -> 2
      [] name = "pdfplumber_tables" -> 3
      [] name = "regex_fallback" -> 4

\* The call is over, with an outcome or with an exception.
Returned == run.pc = "returned"

\* C13: the stages are run in the order vision, AI on text, tables, regex;
\* once a stage has yielded an item no later stage is run; the outcome is that
\* of the first stage that yielded an item, with that stage as the method.
\* When the vision stage yields one item the outcome is that item with the
\* method vision.
C13_FirstYieldingStage ==
    LET c == run.calls
    IN /\ \A i, j \in 1..Len(c) :
             i < j => StageRank(c[i].stage) < StageRank(c[j].stage)
       /\ \A j \in 1..Len(c) :
             c[j].yielded # <<>> => (j = Len(c) /\ run.pc \in {"dates", "returned"})
       /\ Returned =>
             IF \E j \in 1..Len(c) : c[j].yielded # <<>>
               THEN /\ run.outcome.success
                    /\ run.outcome.method = c[Len(c)].stage
                    /\ run.outcome.items = EnsureDates(c[Len(c)].yielded)
               ELSE ~run.outcome.success
       /\ (Returned /\ c # <<>> /\ c[1].stage = "gemini_vision" /\ Len(c[1].yielded) = 1) =>
             /\ run.outcome.method = "gemini_vision"
             /\ Len(run.outcome.items) = 1
             /\ run.outcome.items[1].Item = c[1].yielded[1].Item
             /\ run.outcome.items[1].Total = c[1].yielded[1].Total

\* C13's case: the vision stage and the AI found nothing, the tables of the
\* PDF yielded an item and the call returned it.
C13_Witness ==
    /\ Returned
    /\ Len(run.calls) = 3
    /\ run.outcome.method = "pdfplumber_tables"
    /\ run.outcome.items = EnsureDates(ExtractItemsFromTables(<<TRowCoffee>>))

\* C14: a stage that raises is treated like a stage that found nothing:
\* extract_receipt_data never raises to its caller.
C14_ExtractNeverRaises == run.pc # "raised"

SubRank(name) ==
    CASE name = "text_layer" -> 1
      [] name = "ocr" -> 2
      [] name = "vision_text" -> 3

\* C15: the text is recovered by the text layer (PDF only), then OCR, then the
\* Gemini Vision transcription, in that order for images as for PDFs; the
\* first text that clears the threshold is the text returned and nothing is
\* tried after it.
C15_TextSubstagesInOrder ==
    LET c == run.subcalls
    IN /\ \A i, j \in 1..Len(c) : i < j => SubRank(c[i].sub) < SubRank(c[j].sub)
       /\ \A j \in 1..Len(c) :
             /\ c[j].sub = "text_layer" => stub.ext = ".pdf"
             /\ (run.pc # "raised" /\ Clears(c[j].text)) =>
                   (j = Len(c) /\ run.text = Strip(c[j].text))

\* C16: a recovered text is accepted iff at least 20 of its characters are not
\* whitespace.
C16_AcceptedIffTwentyNonWhitespace ==
    /\ run.text # <<>> => NonWhitespace(run.text) >= 20
    /\ (Returned /\ run.outcome.error_msg = QualityError) =>
          \A j \in 1..Len(run.subcalls) : NonWhitespace(run.subcalls[j].text) < 20

\* The text stage was entered and none of the engines it tried gave a text
\* that clears the threshold.
NoTextRecovered ==
    /\ run.subcalls # <<>>
    /\ \A j \in 1..Len(run.subcalls) : ~Clears(run.subcalls[j].text)

\* C17: when the vision stage yields nothing and no text engine clears the
\* threshold, the call ends with a failed outcome that carries the
\* extraction-quality error, and neither the tables nor the regexes are run.
C17_QualityFailureEndsPipeline ==
    (run.pc \in {"returned", "raised"} /\ NoTextRecovered) =>
        /\ Returned
        /\ ~run.outcome.success
        /\ run.outcome.error_msg = QualityError
        /\ run.outcome.items = <<>>
        /\ \A j \in 1..Len(run.calls) :
              run.calls[j].stage \notin {"gemini_text", "pdfplumber_tables", "regex_fallback"}

\* The part of C17 that holds when no text engine raises.
C17_QualityFailureWhenReturned ==
    (Returned /\ NoTextRecovered) =>
        /\ ~run.outcome.success
        /\ run.outcome.error_msg = QualityError
        /\ run.outcome.items = <<>>
        /\ \A j \in 1..Len(run.calls) : run.calls[j].stage = "gemini_vision"

\* C18: the method of an outcome is one of vision, AI on text, tables, regex
\* fallback, failed; and either the outcome is a success whose method is not
\* failed, or it is a failure with an error and the method failed.
C18_OutcomeWellFormed ==
    Returned =>
        /\ run.outcome.method \in {"gemini_vision", "gemini_text", "pdfplumber_tables",
                                   "regex_fallback", "failed"}
        /\ \/ run.outcome.success /\ run.outcome.method # "failed"
           \/ /\ ~run.outcome.success
              /\ run.outcome.error_msg # ""
              /\ run.outcome.method = "failed"

\* The part of C18 that holds: a success has one of the four methods and no
\* error, a failure has an error, no items and a method that names a failure.
C18_SuccessOrError ==
    Returned =>
        IF run.outcome.success
          THEN /\ run.outcome.method \in {"gemini_vision", "gemini_text",
                                          "pdfplumber_tables", "regex_fallback"}
               /\ run.outcome.items # <<>>
               /\ run.outcome.error_msg = ""
          ELSE /\ run.outcome.method \in {"failed", "text_extraction_failed"}
               /\ run.outcome.items = <<>>
               /\ run.outcome.error_msg # ""

\* ---------------------------------------------------------- regex fallback
\* Label j of the list stands at position p as a label of its own: the match
\* of "total" inside "subtotal" or "grand total" is not a total.
OwnLabelAt(t, p, j) ==
    LET e == MatchLabel(t, p, TOTAL_PATTERNS[j])
    IN /\ e # 0
       /\ j = 1 => \A q \in 1..(p - 1) :
                      /\ MatchLabel(t, q, TOTAL_PATTERNS[2]) # e
                      /\ MatchLabel(t, q, TOTAL_PATTERNS[4]) # e

\* The positive amounts that stand under label j in t.
AmountsUnder(t, j) ==
    {a \in {ParseAmount(MatchTotal(t, p, TOTAL_PATTERNS[j]).group) :
               p \in {q \in 1..Len(t) : OwnLabelAt(t, q, j)}} : a > 0}

LabelsPresent(t) == {j \in 1..Len(TOTAL_PATTERNS) : AmountsUnder(t, j) # {}}

\* The label of highest priority under which t has an amount.
FirstLabel(t) == CHOOSE j \in LabelsPresent(t) : \A i \in LabelsPresent(t) : j <= i

\* The item the regex stage made, if it was run and made one.
RegexYield ==
    LET c == SelectSeq(run.calls, LAMBDA x : x.stage = "regex_fallback")
    IN IF c = <<>> THEN <<>> ELSE c[1].yielded

RegexRan == \E j \in 1..Len(run.calls) : run.calls[j].stage = "regex_fallback"

\* C19: the regex fallback takes the amount under the label of highest
\* priority present, in the order total, grand total, amount due, subtotal;
\* an unlabeled decimal amount is taken only when no labeled amount matches,
\* and only below 100,000.
C19_LabelPriority ==
    RegexRan =>
        IF LabelsPresent(run.text) # {}
          THEN /\ RegexYield # <<>>
               /\ RegexYield[1].Total.val \in AmountsUnder(run.text, FirstLabel(run.text))
          ELSE RegexYield # <<>> =>
                  /\ RegexYield[1].Total.val < SanityCeiling
                  /\ RegexYield[1].Total.val
                        \in {ParseAmount(MatchDecimal(run.text, p).group) :
                                p \in 1..Len(run.text)}

\* The part of C19 that holds: the amount taken is a labeled one whenever the
\* text has one, and an unlabeled one is below the ceiling.
C19_LabeledBeforeUnlabeled ==
    (RegexRan /\ RegexYield # <<>>) =>
        IF LabelsPresent(run.text) # {}
          THEN \E j \in LabelsPresent(run.text) :
                  RegexYield[1].Total.val \in AmountsUnder(run.text, j)
          ELSE RegexYield[1].Total.val < SanityCeiling

\* C20: when no earlier stage yields items and the text has a positive amount
\* labeled as the total, the call succeeds with the method regex_fallback and
\* exactly one item, "Receipt Total", dated today, whose total is that amount.
C20_RegexFallbackSingleTotal ==
    (Returned /\ RegexRan /\ AmountsUnder(run.text, 1) # {}) =>
        /\ run.outcome.success
        /\ run.outcome.method = "regex_fallback"
        /\ Len(run.outcome.items) = 1
        /\ run.outcome.items[1].Item = "Receipt Total"
        /\ run.outcome.items[1].Date = TODAY
        /\ run.outcome.items[1].Total.val \in AmountsUnder(run.text, 1)

\* The part of C20 that holds: one item, "Receipt Total", dated today, whose
\* total is the first amount the regexes found.
C20_SingleSyntheticItem ==
    (Returned /\ RegexRan /\ LabelsPresent(run.text) # {}) =>
        /\ run.outcome.success
        /\ run.outcome.method = "regex_fallback"
        /\ run.outcome.items =
              << [Item |-> "Receipt Total",
                  Price |-> Num(ExtractTotalsFromText(run.text)[1]),
                  Qty |-> Num(100),
                  Total |-> Num(ExtractTotalsFromText(run.text)[1]),
                  Date |-> TODAY] >>

\* Every stage that was run yielded nothing, a text was recovered and the
\* regexes find no positive amount in it.
NothingToExtract ==
    /\ run.pc \in {"returned", "raised"}
    /\ run.text # <<>>
    /\ \A j \in 1..Len(run.calls) : run.calls[j].yielded = <<>>
    /\ ExtractTotalsFromText(run.text) = <<>>

\* C21: when every stage yields nothing and the recovered text has no positive
\* amount, the call returns a failed outcome: no items, the
\* unable-to-extract-amounts error, the method failed.
C21_NoAmountsFails ==
    NothingToExtract =>
        /\ Returned
        /\ run.outcome = [items |-> <<>>, success |-> FALSE,
                          error_msg |-> AmountsError, method |-> "failed"]

\* The part of C21 that holds: when the regex stage is reached and finds no
\* positive amount, the outcome is that failure.
C21_FailedWhenRegexFindsNothing ==
    (run.pc \in {"returned", "raised"} /\ RegexRan /\ RegexYield = <<>>) =>
        /\ Returned
        /\ ExtractTotalsFromText(run.text) = <<>>
        /\ run.outcome = [items |-> <<>>, success |-> FALSE,
                          error_msg |-> AmountsError, method |-> "failed"]

\* The line items the yielding stage was given: the objects of the list Gemini
\* answered, the rows of the tables, the one total of the regexes.
GivenTo(stage) ==
    CASE stage = "gemini_vision" -> Len(SelectSeq(stub.vision_rows, LAMBDA r : r.dict))
      [] stage = "gemini_text" -> Len(SelectSeq(stub.ai_rows, LAMBDA r : r.dict))
      [] stage = "pdfplumber_tables" -> Len(stub.tables)
      [] stage = "regex_fallback" -> 1

\* C22: every item of a successful outcome has a non-empty date, whichever
\* stage made it: an item whose date is missing or empty has today's date;
\* and no item is dropped because a field of it is missing.
C22_EveryItemDatedNoneDropped ==
    (Returned /\ run.outcome.success) =>
        /\ \A j \in 1..Len(run.outcome.items) : run.outcome.items[j].Date # ""
        /\ LET y == run.calls[Len(run.calls)].yielded
           IN \A j \in 1..Len(y) :
                 y[j].Date = "" => run.outcome.items[j].Date = TODAY
        /\ Len(run.outcome.items) = GivenTo(run.outcome.method)

\* The part of C22 that holds: the items the yielding stage returned are all
\* in the outcome, each with a non-empty date, today's where it had none.
C22_EveryItemDated ==
    (Returned /\ run.outcome.success) =>
        LET y == run.calls[Len(run.calls)].yielded
        IN /\ Len(run.outcome.items) = Len(y)
           /\ \A j \in 1..Len(y) :
                 /\ run.outcome.items[j].Date # ""
                 /\ y[j].Date = "" => run.outcome.items[j].Date = TODAY
                 /\ y[j].Date # "" => run.outcome.items[j] = y[j]

\* The number a numeric field of an answer stands for: separators and
\* currency symbols aside, and 0 for what cannot be read as a number.
Stands(v, default) ==
    IF v.kind = "number" THEN v.val
    ELSE IF v.kind = "string" /\ ParseAmount(v.text) # NoAmount THEN ParseAmount(v.text)
    ELSE IF v.kind = "string" THEN 0
    ELSE default

\* The objects of the list Gemini answered to the stage.
AnsweredTo(stage) ==
    SelectSeq(IF stage = "gemini_vision" THEN stub.vision_rows ELSE stub.ai_rows,
              LAMBDA r : r.dict)

\* C23: the numeric fields of the items a Gemini stage returns are numbers: a
\* string with thousands separators or a currency symbol has become the number
\* it stands for ("1,234.56" is 1234.56), an unparseable one 0 ("N/A" is 0);
\* the item is kept, and a field that cannot be parsed leaves no other field
\* of the item unnormalized.
C23_NumericFieldsNormalized ==
    \A c \in 1..Len(run.calls) :
        run.calls[c].stage \in {"gemini_vision", "gemini_text"} =>
            LET given == AnsweredTo(run.calls[c].stage)
                y == run.calls[c].yielded
            IN /\ Len(y) = Len(given)
               /\ \A j \in 1..Len(y) :
                     /\ y[j].Price = Num(Stands(given[j].Price, 0))
                     /\ y[j].Qty = Num(Stands(given[j].Qty, 100))
                     /\ y[j].Total = Num(Stands(given[j].Total, 0))

\* The part of C23 that holds: every object of the answer is kept as an item,
\* and a JSON number or a string float() reads is the number it stands for
\* when no field before it failed.
C23_ItemsKept ==
    \A c \in 1..Len(run.calls) :
        run.calls[c].stage \in {"gemini_vision", "gemini_text"} =>
            LET given == AnsweredTo(run.calls[c].stage)
                y == run.calls[c].yielded
            IN /\ Len(y) = Len(given)
               /\ \A j \in 1..Len(y) :
                     /\ y[j].Item = PyStr(given[j].Item, "Unknown")
                     /\ y[j].Price.numeric => y[j].Price.val = Stands(given[j].Price, 0)
                     /\ y[j].Total.numeric => y[j].Total.val = Stands(given[j].Total, 0)

\* ------------------------------------------------------ sums, files, runs
RECURSIVE AddUp(_)
AddUp(vals) == IF vals = <<>> THEN 0 ELSE Head(vals) + AddUp(Tail(vals))

\* C24: the total of a batch result is the sum of the totals of the merged
\* items whose total is a number; an item whose total is not a number adds
\* nothing, is still listed, with "-" as its amount, and is no failure of its
\* document or of the batch.
C24_SumOfNumericTotals ==
    \A k \in 1..Len(tasks) :
        LET all == tasks[k].all_items
            numeric == SelectSeq(all, LAMBDA it : it.Total.numeric)
        IN /\ tasks[k].total_amount = AddUp([j \in 1..Len(numeric) |-> numeric[j].Total.val])
           /\ Len(tasks[k].lines) = Len(all)
           /\ \A j \in 1..Len(all) :
                 /\ tasks[k].lines[j].doc = all[j].doc
                 /\ tasks[k].lines[j].idx = all[j].idx
                 /\ tasks[k].lines[j].amount =
                       IF all[j].Total.numeric THEN <<"$", all[j].Total.val>>
                                               ELSE <<"-", 0>>
           /\ \A p \in 1..Len(tasks[k].fate) :
                 (\E j \in 1..Len(tasks[k].fate[p].items) :
                      ~tasks[k].fate[p].items[j].Total.numeric)
                    => /\ tasks[k].fate[p].kind = "ok"
                       /\ ErrorsFor(k, p) = <<>>

\* C24's case: a batch is reported whose merged items have numeric totals and
\* one that is not, the sum being that of the numeric ones.
C24_Witness ==
    \E k \in 1..Len(tasks) :
        /\ tasks[k].report = "summary"
        /\ tasks[k].pc = "done"
        /\ \E j \in 1..Len(tasks[k].all_items) : ~tasks[k].all_items[j].Total.numeric
        /\ tasks[k].total_amount = 5
        /\ Len(tasks[k].lines) = 3

\* C25: the temporary file of a document is deleted on every exit path of its
\* processing (success, failed extraction, timeout, failed download,
\* exception in storage or archival): once a batch has been processed none of
\* its temporary files is left.
C25_NoTemporaryFileLeft ==
    \A k \in 1..Len(tasks) :
        Ended(k) => \A p \in 1..Len(ItemsOf(k)) : ItemsOf(k)[p] \notin files

\* The part of C25 that holds: the file of a document whose extraction was
\* begun is deleted, whatever came of it; a file that is left is that of a
\* document which raised before the try statement.
C25_FileLeftOnlyByEarlyRaise ==
    \A k \in 1..Len(tasks) :
        Ended(k) =>
            \A p \in 1..Len(tasks[k].fate) :
                ItemsOf(k)[p] \in files => tasks[k].fate[p].kind = "raised"

TotalToDerive(row) ==
    /\ ParseAmount(row.total) = NoAmount
    /\ ParseAmount(row.price) \notin {NoAmount, 0}
    /\ ParseAmount(row.qty) \notin {NoAmount, 0}

\* C27: in the table stage a row with no total and with a price and a
\* quantity gives a line item whose total is price x quantity, also when the
\* row has no item name; the table stage is run for PDFs only, so that an
\* image never has the method pdfplumber_tables.
C27_TotalDerivedFromPriceAndQty ==
    /\ \A c \in 1..Len(run.calls) :
          run.calls[c].stage = "pdfplumber_tables" =>
              /\ stub.ext = ".pdf"
              /\ \A r \in 1..Len(stub.tables) :
                    TotalToDerive(stub.tables[r]) =>
                        \E j \in 1..Len(run.calls[c].yielded) :
                            LET it == run.calls[c].yielded[j]
                                row == stub.tables[r]
                            IN /\ it.Item = IF row.item # "" THEN row.item ELSE "Unknown"
                               /\ it.Total = Num((ParseAmount(row.price)
                                                    * ParseAmount(row.qty)) \div 100)
    /\ (Returned /\ stub.ext # ".pdf") => run.outcome.method # "pdfplumber_tables"

\* The part of C27 that holds: a row that has an item name, a price and a
\* quantity and no total gives an item whose total is price x quantity, and
\* only a PDF has its tables read.
C27_TotalDerivedForNamedRows ==
    /\ \A c \in 1..Len(run.calls) :
          run.calls[c].stage = "pdfplumber_tables" =>
              /\ stub.ext = ".pdf"
              /\ \A r \in 1..Len(stub.tables) :
                    (TotalToDerive(stub.tables[r]) /\ stub.tables[r].item # "") =>
                        \E j \in 1..Len(run.calls[c].yielded) :
                            LET it == run.calls[c].yielded[j]
                                row == stub.tables[r]
                            IN /\ it.Item = row.item
                               /\ it.Total = Num((ParseAmount(row.price)
                                                    * ParseAmount(row.qty)) \div 100)
    /\ (Returned /\ stub.ext # ".pdf") => run.outcome.method # "pdfplumber_tables"

\* ------------------------------------------------- membership of a batch
\* The handler of update d has returned.
Handled(d) == d < arrived \/ (d = arrived /\ hpc = "idle")

\* The batch objects update d was appended to.
BatchesOf(d) == {b \in 1..Len(batches) : d \in SeqToSet(batches[b].items)}

\* C29: a document (PDF or image) that does not itself carry the trigger is
\* appended to a batch iff its media_group_id is registered when it arrives,
\* and then to the batch registered under that id; it never creates a batch.
\* So whether a document of a burst is in the batch depends on whether it came
\* before or after the first item that carries the trigger: the first item of
\* every batch carries it.
C29_AppendedIffRegistered ==
    /\ \A d \in 1..Len(inbox) :
          (Handled(d) /\ inbox[d].kind = "document" /\ inbox[d].extOk
              /\ ~inbox[d].trigger) =>
              /\ (BatchesOf(d) # {}) <=> inbox[d].registered
              /\ \A b \in BatchesOf(d) :
                    /\ batches[b].items[1] # d
                    /\ tasks[batches[b].timer].mg = inbox[d].mg
    /\ \A b \in 1..Len(batches) :
          batches[b].items # <<>> => inbox[batches[b].items[1]].trigger

\* C29's case: the first document of the album carried the trigger, the second
\* did not and was appended to the batch the first had registered.
C29_Witness ==
    /\ arrived = 2
    /\ Handled(2)
    /\ inbox[1].kind = "document" /\ inbox[1].trigger
    /\ inbox[2].kind = "document" /\ inbox[2].extOk /\ ~inbox[2].trigger
    /\ inbox[2].registered
    /\ \E b \in 1..Len(batches) : batches[b].items = <<1, 2>>

\* C29's other case: the document without the trigger came first and is in no
\* batch; the one that carries the trigger came second and is.
C29_CameBeforeTheTrigger ==
    /\ arrived = 2
    /\ Handled(2)
    /\ inbox[1].kind = "document" /\ inbox[1].extOk /\ ~inbox[1].trigger
    /\ inbox[2].mg = inbox[1].mg /\ inbox[2].trigger
    /\ BatchesOf(1) = {}
    /\ \E b \in 1..Len(batches) : batches[b].items = <<2>>

C28_EveryBatchEventuallySealed ==
    /\ \A g \in Groups : (g \in DOMAIN pending) ~> (g \notin DOMAIN pending)
    /\ <>[](DOMAIN pending = {})

\* C28's case: two batches were registered and sealed, the registry is empty,
\* and the aggregation of one of them ended with an exception.
C28_Witness ==
    /\ arrived = MaxMsgs
    /\ DOMAIN pending = {}
    /\ Len(tasks) = 2
    /\ \A k \in 1..Len(tasks) : tasks[k].data # NoBatch
    /\ \E k \in 1..Len(tasks) : tasks[k].pc = "crashed"

\* --------------------------------------------------- accounting of a batch
\* The positions of the batch of task k whose document has items merged.
MergedPositions(k) ==
    {p \in 1..Len(ItemsOf(k)) : MergedOf(k, ItemsOf(k)[p]) # <<>>}

\* C31: every document of an aggregated batch is accounted for exactly once:
\* once the loop over the N documents is over, the documents with merged items
\* and the error entries are N together, and no document has both merged items
\* and an error entry.
C31_EveryDocumentAccountedOnce ==
    \A k \in 1..Len(tasks) :
        LoopOver(k) =>
            /\ Cardinality(MergedPositions(k)) + Len(tasks[k].errors) = Len(ItemsOf(k))
            /\ \A p \in 1..Len(ItemsOf(k)) :
                  /\ Len(ErrorsFor(k, p)) <= 1
                  /\ (p \in MergedPositions(k)) <=> (ErrorsFor(k, p) = <<>>)
            /\ \A j \in 1..Len(tasks[k].all_items) :
                  \E p \in 1..Len(ItemsOf(k)) : tasks[k].all_items[j].doc = ItemsOf(k)[p]

\* C31's case: a batch of three is over, one document merged, one without
\* data and one whose processing raised.
C31_Witness ==
    \E k \in 1..Len(tasks) :
        /\ LoopOver(k)
        /\ Len(ItemsOf(k)) = 3
        /\ Cardinality(MergedPositions(k)) = 1
        /\ Len(tasks[k].errors) = 2
        /\ "raised" \in {tasks[k].fate[p].kind : p \in 1..3}
        /\ "no_data" \in {tasks[k].fate[p].kind : p \in 1..3}

\* The rows of the sheet that come from the batch of task k.
PersistedOf(k) == SelectSeq(soa, LAMBDA row : row.doc \in SeqToSet(ItemsOf(k)))

\* C32: the merged items of a batch are exactly the items persisted to the
\* sheet for it, in the same order, at every moment of the aggregation: no
\* item is merged that was not persisted, and a document recorded as failed or
\* timed out has no item persisted.
C32_MergedAreThePersisted ==
    \A k \in 1..Len(tasks) :
        /\ Len(tasks[k].all_items) = Len(PersistedOf(k))
        /\ \A j \in 1..Len(tasks[k].all_items) :
              /\ PersistedOf(k)[j].doc = tasks[k].all_items[j].doc
              /\ PersistedOf(k)[j].idx = tasks[k].all_items[j].idx
        /\ \A p \in 1..Len(tasks[k].fate) :
              tasks[k].fate[p].kind # "ok" =>
                  \A j \in 1..Len(soa) : soa[j].doc # ItemsOf(k)[p]

\* C32's case: of a batch of three the first document gave two items, the
\* second timed out and the third gave one: three rows are on the sheet.
C32_Witness ==
    \E k \in 1..Len(tasks) :
        /\ LoopOver(k)
        /\ Kinds(k) = <<"ok", "timed_out", "ok">>
        /\ Len(tasks[k].all_items) = 3
        /\ Len(soa) = 3

\* ------------------------------------------------------- shape of outcomes
\* C33: for every outcome of the pipeline, success is true iff there is at
\* least one item: a successful outcome has items, a failed one has none.
C33_SuccessIffItems ==
    Returned => (run.outcome.success <=> run.outcome.items # <<>>)

\* C33's case: the call returned the two items Gemini made of the text.
C33_Witness ==
    /\ Returned
    /\ run.outcome.success
    /\ run.outcome.method = "gemini_text"
    /\ Len(run.outcome.items) = 2

\* ------------------------------------------------ the file and its worker
\* C34: the temporary file of a document is never deleted while an executor
\* thread is still extracting from it: while a worker of a document runs, the
\* file of the document exists.
C34_FileKeptWhileWorkerRuns == workers \subseteq files

\* The part of C34 that holds: a worker runs without its file only after the
\* wait for it has timed out.
C34_FileGoneOnlyAfterTimeout ==
    \A d \in workers \ files :
        \E k \in 1..Len(tasks) :
            \E p \in 1..Len(tasks[k].fate) :
                ItemsOf(k)[p] = d /\ tasks[k].fate[p].kind = "timed_out"

\* ------------------------------------------------------ archival failures
\* The upload of the document at position p of the batch of task k was tried
\* and failed: the document was merged, a Drive folder is configured, the
\* upload has answered and the document is not on Drive.
UploadFailed(k, p) ==
    /\ p \in 1..Len(tasks[k].fate)
    /\ tasks[k].fate[p].kind = "ok"
    /\ tasks[k].drive_folder_id
    /\ (p < Len(tasks[k].fate) \/ tasks[k].pc # "drive")
    /\ ItemsOf(k)[p] \notin drive

\* C35: a failed Drive upload never makes its document a failure: the items
\* of the document stay merged and in the sum, it gets no error entry, the
\* documents after it are still processed, and the batch ends with the status
\* it would have had with the upload done.
C35_UploadFailureIsNoFailure ==
    \A k \in 1..Len(tasks) :
        \A p \in 1..Len(tasks[k].fate) :
            UploadFailed(k, p) =>
                /\ tasks[k].fate[p].items # <<>>
                /\ MergedOf(k, ItemsOf(k)[p]) = tasks[k].fate[p].items
                /\ ErrorsFor(k, p) = <<>>
                /\ tasks[k].total_amount = SumTotals(tasks[k].all_items)
                /\ tasks[k].pc \in {"get_file", "download", "extract", "drive"} =>
                      tasks[k].i + 1 > p
                /\ LoopOver(k) =>
                      /\ Len(tasks[k].fate) = Len(ItemsOf(k))
                      /\ tasks[k].report =
                            IF \A q \in 1..Len(tasks[k].fate) : tasks[k].fate[q].kind = "ok"
                              THEN "summary" ELSE "summary_some_failed"

\* C35's case: the upload of the first of two documents failed, the second
\* was merged and uploaded, and the batch ended with the plain summary.
C35_Witness ==
    \E k \in 1..Len(tasks) :
        /\ tasks[k].pc = "done"
        /\ Len(ItemsOf(k)) = 2
        /\ UploadFailed(k, 1)
        /\ ItemsOf(k)[2] \in drive
        /\ tasks[k].report = "summary"
        /\ tasks[k].drive_error # ""

\* ------------------------------------------------- one document, no album
\* The messages the handler of the one document delivered after the
\* "Received PDF(s)" notice.
SingleResults == SelectSeq(sent[1], LAMBDA m : m # "received")

\* The extraction of the one document has ended without items: it timed out,
\* raised, or returned a failed outcome.
SingleExtractionFailed ==
    /\ tasks[1].fate # <<>>
    /\ tasks[1].fate[1].kind # "ok"

\* C36: for one document outside any album whose extraction fails or times
\* out, nothing is written to the sheet and nothing is uploaded to Drive; what
\* the handler does is reply with one error message and delete the temporary
\* file.  (A reply Telegram refuses is followed by the reply of the outer
\* except; no second message is delivered after a delivered one.)
C36_FailureLeavesNoTrace ==
    SingleExtractionFailed =>
        /\ soa = <<>>
        /\ drive = {}
        /\ Len(SingleResults) <= 1
        /\ \A j \in 1..Len(SingleResults) :
              SingleResults[j] \in {"timed_out", "extraction_error", "error"}
        /\ tasks[1].pc = "done" => Len(SingleResults) = 1
        /\ tasks[1].pc \in {"done", "crashed"} => TheDoc \notin files

\* C36's case: the extraction of the document timed out, the handler has
\* replied so and returned, and the file is gone.
C36_Witness ==
    /\ tasks[1].pc = "done"
    /\ tasks[1].fate # <<>>
    /\ tasks[1].fate[1].kind = "timed_out"
    /\ sent[1] = <<"received", "timed_out">>
    /\ tasks[1].drive_folder_id
    /\ TheDoc \notin files

\* ------------------------------------------------------- meeting tracking
\* The handler has just decided on a command.
Decided(pc) == mh.pc = "idle" /\ mh'.pc = pc

\* C37: a user has at most one active meeting per chat: /start_meeting is
\* accepted only from a user with no active meeting in the chat and is
\* rejected otherwise, and the rejection leaves the tracking map, and so the
\* recorded start time, as it was; /end_meeting from a user with no active
\* meeting is rejected and leaves the tracking map and the time sheet as they
\* were.
C37_RejectionsChangeNothing ==
    [][/\ Decided("start_reply") =>
             /\ ~Active(active_meetings, mh'.chat, mh'.user)
             /\ Active(active_meetings', mh'.chat, mh'.user)
       /\ Decided("start_rejected") =>
             /\ Active(active_meetings, mh'.chat, mh'.user)
             /\ active_meetings' = active_meetings
       /\ Decided("end_rejected") =>
             /\ ~Active(active_meetings, mh'.chat, mh'.user)
             /\ active_meetings' = active_meetings
             /\ sheet' = sheet
       /\ Decided("end_popped") => Active(active_meetings, mh'.chat, mh'.user)
      ]_vars

\* A second /start_meeting was rejected after the clock had moved on from the
\* recorded start time.
C37_Witness ==
    /\ mh.pc = "start_rejected"
    /\ Active(active_meetings, mh.chat, mh.user)
    /\ active_meetings[mh.chat][mh.user] < now

\* Positions of end_meeting after the pop of line 107.
AfterThePop == {"end_popped", "end_reply_notcfg", "end_reply_ok",
                "end_reply_perm", "end_reply_err"}

\* C38: from the pop on, through the recording and whatever its outcome, the
\* user has no active meeting in the chat (at the position before the
\* recording already), and no chat of the tracking map has an empty set of
\* users.
C38_RemovedBeforeRecorded ==
    /\ mh.pc \in AfterThePop => ~Active(active_meetings, mh.chat, mh.user)
    /\ \A c \in DOMAIN active_meetings : DOMAIN active_meetings[c] # {}

\* A recording failed with nothing written while another user of the chat
\* still has a meeting.
C38_Witness ==
    /\ mh.pc \in {"end_reply_perm", "end_reply_err"}
    /\ sheet = <<>>
    /\ mh.chat \in DOMAIN active_meetings
    /\ mh.time_start < mh.time_end

====
